---- MODULE Spec2Model ----
(***************************************************************************)
(* Charly VM runtime core: heap and mark-sweep collector (src/vm/gc.cpp),  *)
(* the VM root set and scheduler state (include/vm.h).                     *)
(***************************************************************************)
EXTENDS Integers, Sequences, FiniteSets, TLC

(***************************************************************************)
(* Bounds of the model                                                     *)
(***************************************************************************)
\* GarbageCollectorConfig, scaled down
heap_cell_count == 3
initial_heap_count == 1
heap_growth_factor == 2
min_free_cells == 1
\* number of mutator operations explored from the initial state
MaxSteps == 3

\* arenas the model can hold: the initial ones and one growth
MaxHeaps == initial_heap_count * heap_growth_factor + 1
MaxCells == MaxHeaps * heap_cell_count
CellIds == 1 .. MaxCells

(***************************************************************************)
(* Values.  A VALUE is kNull (0), a pointer to a heap cell (1..MaxCells)   *)
(* or another immediate (an integer outside that range).  nullptr is 0.    *)
(***************************************************************************)
kNull == 0
nullptr == 0

charly_is_ptr(v) == v \in CellIds

\* enum ValueType, heap allocated types
kTypeDead == "dead"
kTypeClass == "class"
kTypeObject == "object"
kTypeArray == "array"
kTypeString == "string"
kTypeFunction == "function"
kTypeCFunction == "cfunction"
kTypeGenerator == "generator"
kTypeFrame == "frame"
kTypeCatchTable == "catchtable"
kTypeCPointer == "cpointer"

\* thread policies of C functions
kThreadMain == 1
kThreadWorker == 2
kThreadBoth == 3

\* pointer and VALUE members of each heap type that can hold a reference
SlotNames(t) ==
  CASE t = kTypeObject -> {"klass"}
    [] t = kTypeFunction -> {"context", "host_class", "bound_self"}
    [] t = kTypeGenerator -> {"context_frame", "boot_function", "context_catchtable", "bound_self"}
    [] t = kTypeClass -> {"constructor", "prototype", "parent_class"}
    [] t = kTypeFrame -> {"parent", "parent_environment_frame", "last_active_catchtable",
                          "caller_value", "self"}
    [] t = kTypeCatchTable -> {"frame", "parent"}
    [] OTHER -> {}

\* the members of each heap type that hold no reference: addresses, sizes
\* and flags stored outside Basic
MemberNames(t) ==
  CASE t = kTypeFrame -> {"stacksize_at_entry", "return_address"}
    [] t = kTypeCatchTable -> {"address", "stacksize"}
    [] t = kTypeCFunction -> {"thread_policy"}
    [] t = kTypeFunction -> {"body_address"}
    [] t = kTypeGenerator -> {"resume_address", "context_stack"}
    [] OTHER -> {}

\* a MemoryCell.  slots: the members above; container: the values of the
\* unordered_map container; data: the values of Array::data, of the locals of
\* a Frame or of Generator::context_stack; next: free.next of a dead cell.
\* f1 and f2 are the flags of Basic (Generator: finished and started; Frame:
\* f2 is halt_after_return).
MemoryCell(t, nxt) ==
  [type |-> t, mark |-> FALSE, f1 |-> FALSE, f2 |-> FALSE, bound_self_set |-> FALSE,
   slots |-> [n \in SlotNames(t) |-> kNull], container |-> {}, data |-> {},
   members |-> [n \in MemberNames(t) |-> 0], next |-> nxt]

\* memset(cell, 0) followed by type = kTypeDead and free.next = nxt
DeadCell(nxt) == MemoryCell(kTypeDead, nxt)

\* struct VMTask
init_thread(id, argument) ==
  [is_thread |-> TRUE, uid |-> 0, id |-> id, argument |-> argument,
   func |-> kNull, arguments |-> <<kNull, kNull, kNull, kNull>>]

init_callback_with_id(id, func, a1, a2, a3, a4) ==
  [is_thread |-> FALSE, uid |-> id, id |-> 0, argument |-> kNull,
   func |-> func, arguments |-> <<a1, a2, a3, a4>>]

init_callback(func, a1, a2, a3, a4) == init_callback_with_id(0, func, a1, a2, a3, a4)

\* VMThread with the bug of leaving the uid member zero
VMThread_no_uid(u, s, f, c, r) ==
  [uid |-> 0, stack |-> s, frame |-> f, catchstack |-> c, resume_address |-> r]

\* VMThread with the bug of not taking over the stack
VMThread_no_stack(u, s, f, c, r) ==
  [uid |-> u, stack |-> <<>>, frame |-> f, catchstack |-> c, resume_address |-> r]

\* struct VMThread
VMThread(u, s, f, c, r) ==
  [uid |-> u, stack |-> s, frame |-> f, catchstack |-> c, resume_address |-> r]

\* struct WorkerThread; error_value starts as kNull
WorkerThread(cf, args, cb) ==
  [cfunc |-> cf, arguments |-> args, callback |-> cb, error_value |-> kNull]

PrimitiveNames ==
  {"array", "boolean", "class", "function", "generator", "null", "number",
   "object", "string", "value"}

(***************************************************************************)
(* State                                                                   *)
(***************************************************************************)
VARIABLES
  \* GarbageCollector
  heaps,                 \* heaps.size()
  cell,                  \* the cells of all arenas
  free_cell,             \* head of the freelist
  remaining_free_cells,
  temporaries,
  \* VM
  running,
  frames,
  catchstack,
  uncaught_exception_handler,
  internal_error_class,
  globals,
  primitive,             \* primitive_array .. primitive_value
  stack,
  pop_queue,
  task_queue,
  timers,
  tickers,
  paused_threads,
  worker_threads,
  next_thread_id,
  next_timer_id,
  uid,                   \* the uid of the current thread of execution
  ip,
  halted,
  \* the environment of the scheduler
  now,                   \* std::chrono::steady_clock::now()
  pc,                    \* where the main thread is: "loop", "run" or "exited"
  worker_state,          \* the host thread of each worker started
  \* history of the scheduler
  enq_log,               \* every task passed to register_task, in order
  run_log,               \* every task popped and executed, in order
  timer_log,             \* every timer and ticker registered
  cleared,               \* the ids passed to clear_timer / clear_ticker
  suspend_log,           \* the fiber of every suspend_thread, in order
  last_drain,            \* the ticker ids enqueued by the last drain
  \* observation of the last operation
  alloc_result,          \* the cell returned by the last allocate()
  collected,             \* the last operation ran a collection
  cleaned,               \* cells whose clean() ran in the last collection
  steps,
  \* interpreter
  status_code,           \* VM::status_code, not 0 after a panic
  native_log,            \* history: the native functions that ran, and on which thread
  gen_log,               \* history: the values yielded by and returned from generators
  try_regions,           \* history: the catch-tables whose try region is being executed
  last_op,               \* history: the opcode the interpreter executed last
  code,                  \* the instructions of the loaded program, by address
  \* locks and host threads
  g_mutex,               \* GarbageCollector::g_mutex (recursive): owner and depth
  task_queue_m,          \* VM::task_queue_m: the thread that holds it
  worker_threads_m,      \* VM::worker_threads_m: the thread that holds it
  threads,               \* per host thread: the collector call it is in, where, and
                         \* the locks it holds in the order it acquired them
  \* calls of the value functions (value.h)
  fn,                    \* the function called last, "" before the first call
  fn_args,               \* its arguments
  fn_result,             \* what it returned
  \* the parser (compiler/parser.cpp)
  m_keyword_context,     \* Parser::m_keyword_context: the keywords allowed here
  call_stack,            \* the parse functions being executed, outermost first
  parsed,                \* the statement parsed by the last step: "break", "continue" or ""
  m_console              \* the errors the last step reported

gcVars == <<heaps, cell, free_cell, remaining_free_cells, temporaries>>
rootVars == <<running, frames, catchstack, uncaught_exception_handler,
              internal_error_class, globals, primitive, stack, pop_queue,
              task_queue, timers, tickers, paused_threads, worker_threads>>
obsVars == <<alloc_result, collected, cleaned, steps>>
lockVars == <<g_mutex, task_queue_m, worker_threads_m, threads>>
valueVars == <<fn, fn_args, fn_result>>
parserVars == <<m_keyword_context, call_stack, parsed, m_console>>
interpVars == <<status_code, native_log, gen_log, try_regions, last_op, code, lockVars,
                valueVars, parserVars>>
schedVars == <<next_thread_id, next_timer_id, uid, ip, halted, now, pc, worker_state,
               enq_log, run_log, timer_log, cleared, suspend_log, last_drain>>

(***************************************************************************)
(* Helpers                                                                 *)
(***************************************************************************)
RECURSIVE SetToSeq(_)
SetToSeq(S) ==
  IF S = {} THEN <<>>
  ELSE LET x == CHOOSE y \in S : \A z \in S : y <= z
       IN <<x>> \o SetToSeq(S \ {x})

Range(f) == {f[x] : x \in DOMAIN f}

RECURSIVE Flatten(_)
Flatten(ss) == IF ss = <<>> THEN <<>> ELSE Head(ss) \o Flatten(Tail(ss))

\* the host threads: the one that constructed the VM and a worker
main_thread_id == "main"

worker_thread_id == "worker"

Threads == {main_thread_id, worker_thread_id}

\* no value function has been called
NoCall == fn = "" /\ fn_args = <<>> /\ fn_result = <<>>

\* a parse function being executed: its name, how far it has got, its local
\* kwcontext (empty for a function without one) and, as history, the
\* keyword context it was called in
Scope(function, at, kwcontext, before) == <<function, at, kwcontext, before>>

Name(scope) == scope[1]

Position(scope) == scope[2]

Kwcontext(scope) == scope[3]

Before(scope) == scope[4]

\* Parser::parse_program(source, console): the keyword context of the top
\* level allows return, export and import
parse_program == {"return", "export", "import"}

\* a parser constructed by Parser::parse_program, before the first token
NoParse ==
  /\ m_keyword_context = parse_program
  /\ call_stack = <<Scope("parse_program", "body", {}, parse_program)>>
  /\ parsed = ""
  /\ m_console = <<>>

\* no thread holds a lock or is inside the collector
InitLocks ==
  /\ g_mutex = [owner |-> "none", count |-> 0]
  /\ task_queue_m = "none"
  /\ worker_threads_m = "none"
  /\ threads = [t \in Threads |-> [pc |-> "idle", via |-> "none", held |-> <<>>]]

(***************************************************************************)
(* GarbageCollector (src/vm/gc.cpp).  The operators work on a record g of  *)
(* the collector's fields and of what a collection changes besides them.   *)
(***************************************************************************)
GC ==
  [heaps |-> heaps, cell |-> cell, free_cell |-> free_cell,
   remaining_free_cells |-> remaining_free_cells, pop_queue |-> pop_queue,
   alloc_result |-> nullptr, collected |-> FALSE, cleaned |-> {}]

\* GarbageCollector::add_heap: calloc one arena and thread its cells onto
\* the freelist, the last cell of the arena becoming the head
add_heap(g) ==
  LET base == g.heaps * heap_cell_count
      heap == [i \in (base + 1) .. (base + heap_cell_count) |->
                 DeadCell(IF i = base + 1 THEN g.free_cell ELSE i - 1)]
  IN [g EXCEPT !.heaps = @ + 1,
               !.remaining_free_cells = @ + heap_cell_count,
               !.cell = [i \in (DOMAIN g.cell) \cup (DOMAIN heap) |->
                           IF i \in DOMAIN heap THEN heap[i] ELSE g.cell[i]],
               !.free_cell = base + heap_cell_count]

RECURSIVE add_heaps(_, _)
add_heaps(g, n) == IF n = 0 THEN g ELSE add_heaps(add_heap(g), n - 1)

\* GarbageCollector::grow_heap
grow_heap(g) ==
  LET heap_count == g.heaps
      heaps_to_add == (heap_count * heap_growth_factor + 1) - heap_count
  IN add_heaps(g, heaps_to_add)

\* Refs with the bug of not visiting the frame a function captured
Refs_no_context(c) ==
  CASE c.type = kTypeObject ->
         <<c.slots.klass>> \o SetToSeq(c.container)
    [] c.type = kTypeArray ->
         SetToSeq(c.data)
    [] c.type = kTypeFunction ->
         <<c.slots.host_class>>
           \o (IF c.bound_self_set THEN <<c.slots.bound_self>> ELSE <<>>)
           \o SetToSeq(c.container)
    [] c.type = kTypeCFunction ->
         SetToSeq(c.container)
    [] c.type = kTypeGenerator ->
         (IF ~c.f1
          THEN <<c.slots.context_frame, c.slots.boot_function, c.slots.context_catchtable>>
                 \o (IF c.bound_self_set THEN <<c.slots.bound_self>> ELSE <<>>)
                 \o SetToSeq(c.data)
          ELSE <<>>)
           \o SetToSeq(c.container)
    [] c.type = kTypeClass ->
         <<c.slots.constructor, c.slots.prototype, c.slots.parent_class>>
           \o SetToSeq(c.container)
    [] c.type = kTypeFrame ->
         <<c.slots.parent, c.slots.parent_environment_frame,
           c.slots.last_active_catchtable, c.slots.caller_value, c.slots.self>>
           \o SetToSeq(c.data)
    [] c.type = kTypeCatchTable ->
         <<c.slots.frame, c.slots.parent>>
    [] OTHER -> <<>>

\* the values GarbageCollector::mark visits from a cell, in the order of the
\* switch over the cell's type
Refs(c) ==
  CASE c.type = kTypeObject ->
         <<c.slots.klass>> \o SetToSeq(c.container)
    [] c.type = kTypeArray ->
         SetToSeq(c.data)
    [] c.type = kTypeFunction ->
         <<c.slots.context, c.slots.host_class>>
           \o (IF c.bound_self_set THEN <<c.slots.bound_self>> ELSE <<>>)
           \o SetToSeq(c.container)
    [] c.type = kTypeCFunction ->
         SetToSeq(c.container)
    [] c.type = kTypeGenerator ->
         (IF ~c.f1
          THEN <<c.slots.context_frame, c.slots.boot_function, c.slots.context_catchtable>>
                 \o (IF c.bound_self_set THEN <<c.slots.bound_self>> ELSE <<>>)
                 \o SetToSeq(c.data)
          ELSE <<>>)
           \o SetToSeq(c.container)
    [] c.type = kTypeClass ->
         <<c.slots.constructor, c.slots.prototype, c.slots.parent_class>>
           \o SetToSeq(c.container)
    [] c.type = kTypeFrame ->
         <<c.slots.parent, c.slots.parent_environment_frame,
           c.slots.last_active_catchtable, c.slots.caller_value, c.slots.self>>
           \o SetToSeq(c.data)
    [] c.type = kTypeCatchTable ->
         <<c.slots.frame, c.slots.parent>>
    [] OTHER -> <<>>

\* GarbageCollector::mark: recursive, cut short by the mark bit
RECURSIVE mark(_, _)
RECURSIVE markAll(_, _)
mark(h, value) ==
  IF ~charly_is_ptr(value) THEN h
  ELSE IF value = nullptr THEN h
  ELSE IF h[value].mark THEN h
  ELSE markAll([h EXCEPT ![value].mark = TRUE], Refs(h[value]))

markAll(h, values) ==
  IF values = <<>> THEN h ELSE markAll(mark(h, Head(values)), Tail(values))

\* TaskRoots with the bug of marking only the function of a callback task
TaskRoots_func_only(task) ==
  IF task.is_thread THEN <<task.argument>> ELSE <<task.func>>

\* the values marked for one VMTask of the task queue
TaskRoots(task) ==
  IF task.is_thread THEN <<task.argument>>
  ELSE <<task.func, task.arguments[1], task.arguments[2], task.arguments[3],
         task.arguments[4]>>

\* the values marked for a timer or ticker entry
CallbackRoots(task) ==
  <<task.func, task.arguments[1], task.arguments[2], task.arguments[3],
    task.arguments[4]>>

\* the values marked for one paused thread
ThreadRoots(thread) == thread.stack \o <<thread.frame, thread.catchstack>>

\* WorkerRoots with the bug of not marking the arguments
WorkerRoots_no_arguments(w) ==
  (IF w.cfunc # nullptr THEN <<w.cfunc>> ELSE <<>>)
    \o (IF w.callback # nullptr THEN <<w.callback>> ELSE <<>>)
    \o <<w.error_value>>

\* the values marked for one worker thread record
WorkerRoots(w) ==
  (IF w.cfunc # nullptr THEN <<w.cfunc>> ELSE <<>>)
    \o (IF w.callback # nullptr THEN <<w.callback>> ELSE <<>>)
    \o <<w.error_value>> \o w.arguments

\* the roots GarbageCollector::collect marks while host_vm->running, in order
VMRoots(pq) ==
  <<frames, catchstack, uncaught_exception_handler, internal_error_class,
    globals, primitive["array"], primitive["boolean"], primitive["class"],
    primitive["function"], primitive["generator"], primitive["null"],
    primitive["number"], primitive["object"], primitive["string"],
    primitive["value"]>>
    \o stack
    \o pq
    \o Flatten([i \in 1 .. Len(task_queue) |-> TaskRoots(task_queue[i])])
    \o Flatten([i \in 1 .. Cardinality(DOMAIN timers) |->
                  CallbackRoots(timers[SetToSeq(DOMAIN timers)[i]])])
    \o Flatten([i \in 1 .. Cardinality(DOMAIN tickers) |->
                  CallbackRoots(tickers[SetToSeq(DOMAIN tickers)[i]].task)])
    \o Flatten([i \in 1 .. Cardinality(DOMAIN paused_threads) |->
                  ThreadRoots(paused_threads[SetToSeq(DOMAIN paused_threads)[i]])])
    \o Flatten([i \in 1 .. Cardinality(DOMAIN worker_threads) |->
                  WorkerRoots(worker_threads[SetToSeq(DOMAIN worker_threads)[i]])])

\* the heap types whose case in GarbageCollector::deallocate calls clean()
HasClean(t) ==
  t \in {kTypeObject, kTypeArray, kTypeString, kTypeFunction, kTypeCFunction,
         kTypeGenerator, kTypeClass, kTypeCPointer, kTypeFrame}

\* deallocate with the bug of linking the cell behind the head of the
\* freelist instead of making it the head
deallocate_behind_head(g, c) ==
  IF g.free_cell = nullptr
  THEN [g EXCEPT !.cleaned = IF HasClean(g.cell[c].type) THEN @ \cup {c} ELSE @,
                 !.cell = [@ EXCEPT ![c] = DeadCell(nullptr)],
                 !.free_cell = c,
                 !.remaining_free_cells = @ + 1]
  ELSE [g EXCEPT !.cleaned = IF HasClean(g.cell[c].type) THEN @ \cup {c} ELSE @,
                 !.cell = [@ EXCEPT ![c] = DeadCell(g.cell[g.free_cell].next),
                                    ![g.free_cell].next = c],
                 !.remaining_free_cells = @ + 1]

\* GarbageCollector::deallocate
deallocate(g, c) ==
  [g EXCEPT !.cleaned = IF HasClean(g.cell[c].type) THEN @ \cup {c} ELSE @,
            !.cell = [@ EXCEPT ![c] = DeadCell(g.free_cell)],
            !.free_cell = c,
            !.remaining_free_cells = @ + 1]

\* sweep with the bug of deallocating unmarked cells that are already dead
RECURSIVE sweep_dead_cells_too(_, _)
sweep_dead_cells_too(g, i) ==
  IF i > g.heaps * heap_cell_count THEN g
  ELSE IF g.cell[i].mark
       THEN sweep_dead_cells_too([g EXCEPT !.cell = [@ EXCEPT ![i].mark = FALSE]], i + 1)
       ELSE sweep_dead_cells_too(deallocate(g, i), i + 1)

\* sweep with the bug of deallocating the marked cells as well
RECURSIVE sweep_marked_cells_too(_, _)
sweep_marked_cells_too(g, i) ==
  IF i > g.heaps * heap_cell_count THEN g
  ELSE IF g.cell[i].type = kTypeDead
       THEN sweep_marked_cells_too(g, i + 1)
       ELSE sweep_marked_cells_too(deallocate(g, i), i + 1)

\* the sweep phase of GarbageCollector::collect over the cells i, i+1, ...
RECURSIVE sweep(_, _)
sweep(g, i) ==
  IF i > g.heaps * heap_cell_count THEN g
  ELSE IF g.cell[i].mark
       THEN sweep([g EXCEPT !.cell = [@ EXCEPT ![i].mark = FALSE]], i + 1)
       ELSE IF g.cell[i].type # kTypeDead
            THEN sweep(deallocate(g, i), i + 1)
            ELSE sweep(g, i + 1)

\* collect with the bug of emptying pop_queue without marking its values
collect_without_pop_queue(g) ==
  LET m1 == IF running THEN markAll(g.cell, VMRoots(<<>>)) ELSE g.cell
      m2 == markAll(m1, SetToSeq(temporaries))
      g1 == [g EXCEPT !.cell = m2,
                      !.pop_queue = IF running THEN <<>> ELSE @,
                      !.collected = TRUE,
                      !.cleaned = {}]
  IN sweep(g1, 1)

\* collect with the bug of not marking the temporaries
collect_without_temporaries(g) ==
  LET m1 == IF running THEN markAll(g.cell, VMRoots(g.pop_queue)) ELSE g.cell
      g1 == [g EXCEPT !.cell = m1,
                      !.pop_queue = IF running THEN <<>> ELSE @,
                      !.collected = TRUE,
                      !.cleaned = {}]
  IN sweep(g1, 1)

\* GarbageCollector::collect
collect(g) ==
  LET m1 == IF running THEN markAll(g.cell, VMRoots(g.pop_queue)) ELSE g.cell
      m2 == markAll(m1, SetToSeq(temporaries))
      g1 == [g EXCEPT !.cell = m2,
                      !.pop_queue = IF running THEN <<>> ELSE @,
                      !.collected = TRUE,
                      !.cleaned = {}]
  IN sweep(g1, 1)

\* allocate with the bug of never growing the heap
allocate_no_grow(g) ==
  LET c == g.free_cell
      g1 == [g EXCEPT !.free_cell = g.cell[c].next]
      g2 == IF g1.free_cell = nullptr \/ g1.remaining_free_cells <= min_free_cells
            THEN collect(g1)
            ELSE g1
  IN [g2 EXCEPT !.remaining_free_cells = @ - 1, !.alloc_result = c]

\* allocate without the decrement of remaining_free_cells
allocate_uncounted(g) ==
  LET c == g.free_cell
      g1 == [g EXCEPT !.free_cell = g.cell[c].next]
      g2 == IF g1.free_cell = nullptr \/ g1.remaining_free_cells <= min_free_cells
            THEN LET g3 == collect(g1)
                 IN IF g3.free_cell = nullptr THEN grow_heap(g3) ELSE g3
            ELSE g1
  IN [g2 EXCEPT !.alloc_result = c]

\* GarbageCollector::allocate
allocate(g) ==
  LET c == g.free_cell
      g1 == [g EXCEPT !.free_cell = g.cell[c].next]
      g2 == IF g1.free_cell = nullptr \/ g1.remaining_free_cells <= min_free_cells
            THEN LET g3 == collect(g1)
                 IN IF g3.free_cell = nullptr THEN grow_heap(g3) ELSE g3
            ELSE g1
  IN [g2 EXCEPT !.remaining_free_cells = @ - 1, !.alloc_result = c]

(***************************************************************************)
(* The program as a mutator of the heap: it allocates cells, initialises   *)
(* them and stores them in the roots the collector scans or in other       *)
(* cells, and it drops roots again.                                        *)
(***************************************************************************)
\* the roots the mutator stores a new cell in, with the types it creates there
RootPlaces ==
  {"frames", "catchstack", "uncaught_exception_handler", "internal_error_class",
   "globals", "primitive_array", "primitive_value", "stack", "pop_queue",
   "task.func", "task.arguments", "task.thread", "timer.func", "timer.arguments",
   "ticker.func", "ticker.arguments", "paused", "worker.cfunc", "worker.callback",
   "worker.arguments", "worker.error_value", "temporaries"}

PlaceTypes(p) ==
  CASE p = "frames" -> {kTypeFrame}
    [] p = "catchstack" -> {kTypeCatchTable}
    [] p \in {"uncaught_exception_handler", "task.func", "timer.func", "ticker.func",
              "worker.callback"} -> {kTypeFunction}
    [] p \in {"internal_error_class", "primitive_array", "primitive_value"} -> {kTypeClass}
    [] p \in {"globals", "pop_queue", "worker.error_value"} -> {kTypeObject}
    [] p = "stack" -> {kTypeArray}
    [] p \in {"task.arguments", "timer.arguments", "ticker.arguments",
              "worker.arguments"} -> {kTypeArray}
    [] p = "task.thread" -> {kTypeString}
    [] p = "paused" -> {kTypeGenerator}
    [] p = "worker.cfunc" -> {kTypeCFunction}
    [] p = "temporaries" -> {kTypeCPointer, kTypeArray}

\* the position of the new cell in VMTask::callback.arguments
ArgIndexes(p) ==
  IF p = "task.arguments" THEN 1 .. 4 ELSE {1}

ArgsWith(i, v) == [j \in 1 .. 4 |-> IF j = i THEN v ELSE kNull]

\* a key that the map f does not hold yet
FreshKey(f) == CHOOSE k \in 0 .. Cardinality(DOMAIN f) : k \notin DOMAIN f

\* the members of a cell the mutator stores references in
FieldPlaces(t) ==
  SlotNames(t)
    \cup (IF t \in {kTypeObject, kTypeFunction, kTypeCFunction, kTypeGenerator, kTypeClass}
          THEN {"container"} ELSE {})
    \cup (IF t \in {kTypeArray, kTypeFrame, kTypeGenerator} THEN {"data"} ELSE {})

\* the types of the cells stored in member f of a cell of type t
FieldTypes(t, f) ==
  CASE f \in {"context", "context_frame", "parent_environment_frame", "frame"} -> {kTypeFrame}
    [] f = "parent" -> IF t = kTypeFrame THEN {kTypeFrame} ELSE {kTypeCatchTable}
    [] f \in {"boot_function", "constructor", "caller_value"} -> {kTypeFunction}
    [] f \in {"context_catchtable", "last_active_catchtable"} -> {kTypeCatchTable}
    [] f \in {"klass", "host_class", "parent_class"} -> {kTypeClass}
    [] f \in {"bound_self", "prototype", "self"} -> {kTypeObject}
    [] f = "container" -> {kTypeFunction, kTypeString}
    [] f = "data" -> {kTypeObject, kTypeCPointer}

\* cell c0 after value v was stored in its member f
WithField(c0, f, v) ==
  IF f = "container" THEN [c0 EXCEPT !.container = @ \cup {v}]
  ELSE IF f = "data" THEN [c0 EXCEPT !.data = @ \cup {v}]
  ELSE IF f = "bound_self" THEN [c0 EXCEPT !.slots[f] = v, !.bound_self_set = TRUE]
  ELSE [c0 EXCEPT !.slots[f] = v]

\* the cell returned by allocate() once its creator has initialised it
NewCell(t, p) ==
  LET c0 == MemoryCell(t, nullptr)
  IN IF p = "frames" THEN [c0 EXCEPT !.slots.parent = frames]
     ELSE IF p = "catchstack"
          THEN [c0 EXCEPT !.slots.parent = catchstack, !.slots.frame = frames]
          ELSE c0

\* the collector's fields and the observation variables after an operation
\* that ran the collector operations leading to g
SetGC(g) ==
  /\ heaps' = g.heaps
  /\ free_cell' = g.free_cell
  /\ remaining_free_cells' = g.remaining_free_cells
  /\ alloc_result' = g.alloc_result
  /\ collected' = g.collected
  /\ cleaned' = g.cleaned

\* the roots after value v was stored in place p (argument position i);
\* pq is the pop queue the operation left
StoreRoot(p, i, v, pq) ==
  /\ frames' = IF p = "frames" THEN v ELSE frames
  /\ catchstack' = IF p = "catchstack" THEN v ELSE catchstack
  /\ uncaught_exception_handler' =
       IF p = "uncaught_exception_handler" THEN v ELSE uncaught_exception_handler
  /\ internal_error_class' = IF p = "internal_error_class" THEN v ELSE internal_error_class
  /\ globals' = IF p = "globals" THEN v ELSE globals
  /\ primitive' = IF p = "primitive_array" THEN [primitive EXCEPT !["array"] = v]
                  ELSE IF p = "primitive_value" THEN [primitive EXCEPT !["value"] = v]
                  ELSE primitive
  /\ stack' = IF p = "stack" THEN Append(stack, v)
              ELSE IF p = "paused" THEN <<>> ELSE stack
  /\ pop_queue' = IF p = "pop_queue" THEN Append(pq, v) ELSE pq
  /\ task_queue' =
       IF p = "task.func" THEN Append(task_queue, init_callback(v, kNull, kNull, kNull, kNull))
       ELSE IF p = "task.arguments"
            THEN Append(task_queue, [init_callback(kNull, kNull, kNull, kNull, kNull)
                                       EXCEPT !.arguments = ArgsWith(i, v)])
       ELSE IF p = "task.thread" THEN Append(task_queue, init_thread(0, v))
       ELSE task_queue
  /\ timers' =
       IF p = "timer.func"
       THEN (FreshKey(timers) :> init_callback(v, kNull, kNull, kNull, kNull)) @@ timers
       ELSE IF p = "timer.arguments"
            THEN (FreshKey(timers) :> [init_callback(kNull, kNull, kNull, kNull, kNull)
                                         EXCEPT !.arguments = ArgsWith(i, v)]) @@ timers
       ELSE timers
  /\ tickers' =
       IF p = "ticker.func"
       THEN (FreshKey(tickers) :>
               [task |-> init_callback(v, kNull, kNull, kNull, kNull), period |-> 1]) @@ tickers
       ELSE IF p = "ticker.arguments"
            THEN (FreshKey(tickers) :>
                    [task |-> [init_callback(kNull, kNull, kNull, kNull, kNull)
                                 EXCEPT !.arguments = ArgsWith(i, v)],
                     period |-> 1]) @@ tickers
       ELSE tickers
  /\ paused_threads' =
       IF p = "paused"
       THEN LET id == FreshKey(paused_threads)
            IN (id :> VMThread(id, Append(stack, v), frames, catchstack, 0)) @@ paused_threads
       ELSE paused_threads
  /\ worker_threads' =
       IF p = "worker.cfunc"
       THEN (FreshKey(worker_threads) :> WorkerThread(v, <<>>, nullptr)) @@ worker_threads
       ELSE IF p = "worker.callback"
            THEN (FreshKey(worker_threads) :> WorkerThread(nullptr, <<>>, v)) @@ worker_threads
       ELSE IF p = "worker.arguments"
            THEN (FreshKey(worker_threads) :> WorkerThread(nullptr, <<v>>, nullptr))
                   @@ worker_threads
       ELSE IF p = "worker.error_value"
            THEN (FreshKey(worker_threads) :>
                    [WorkerThread(nullptr, <<>>, nullptr) EXCEPT !.error_value = v])
                   @@ worker_threads
       ELSE worker_threads
  /\ temporaries' = IF p = "temporaries" THEN temporaries \cup {v} ELSE temporaries

\* allocate a cell, initialise it with type t and store it in root place p
Allocate(p, t, i) ==
  /\ UNCHANGED <<schedVars, interpVars>>
  /\ running
  /\ steps < MaxSteps
  /\ free_cell # nullptr
  /\ LET g == allocate(GC)
         c == g.alloc_result
     IN /\ g.heaps <= MaxHeaps
        /\ SetGC(g)
        /\ cell' = [g.cell EXCEPT ![c] = NewCell(t, p)]
        /\ StoreRoot(p, i, c, g.pop_queue)
  /\ steps' = steps + 1
  /\ UNCHANGED running

\* allocate a cell, initialise it with type t and store it in member f of
\* the cell c0
AllocateField(c0, f, t) ==
  /\ UNCHANGED <<schedVars, interpVars>>
  /\ running
  /\ steps < MaxSteps
  /\ free_cell # nullptr
  /\ LET g == allocate(GC)
         c == g.alloc_result
     IN /\ g.heaps <= MaxHeaps
        /\ g.cell[c0].type # kTypeDead
        /\ SetGC(g)
        /\ cell' = [g.cell EXCEPT ![c] = MemoryCell(t, nullptr),
                                  ![c0] = WithField(g.cell[c0], f, c)]
        /\ pop_queue' = g.pop_queue
  /\ steps' = steps + 1
  /\ UNCHANGED <<temporaries, running, frames, catchstack, uncaught_exception_handler,
                 internal_error_class, globals, primitive, stack, task_queue, timers,
                 tickers, paused_threads, worker_threads>>

\* store a reference to the existing cell v in member f of the cell c0
Link(c0, f, v) ==
  /\ UNCHANGED <<schedVars, interpVars>>
  /\ running
  /\ steps < MaxSteps
  /\ cell[c0].type # kTypeDead
  /\ f \in FieldPlaces(cell[c0].type)
  /\ cell[v].type \in FieldTypes(cell[c0].type, f)
  /\ cell' = [cell EXCEPT ![c0] = WithField(cell[c0], f, v)]
  /\ cell' # cell
  /\ steps' = steps + 1
  /\ alloc_result' = nullptr /\ collected' = FALSE /\ cleaned' = {}
  /\ UNCHANGED <<heaps, free_cell, remaining_free_cells, temporaries, rootVars>>

\* a generator runs to its end: Generator::set_finished(true)
Finish(c0) ==
  /\ UNCHANGED <<schedVars, interpVars>>
  /\ running
  /\ steps < MaxSteps
  /\ cell[c0].type = kTypeGenerator
  /\ ~cell[c0].f1
  /\ cell' = [cell EXCEPT ![c0].f1 = TRUE]
  /\ steps' = steps + 1
  /\ alloc_result' = nullptr /\ collected' = FALSE /\ cleaned' = {}
  /\ UNCHANGED <<heaps, free_cell, remaining_free_cells, temporaries, rootVars>>

\* the roots the mutator drops a reference from
DropPlaces ==
  {"frames", "catchstack", "uncaught_exception_handler", "internal_error_class",
   "globals", "primitive_array", "primitive_value", "stack", "task_queue", "timers",
   "tickers", "paused_threads", "worker_threads"}

\* Without with the bug of erasing nothing
Without_nothing(f, k) == f

\* map f without its entry of key k
Without(f, k) == [x \in (DOMAIN f) \ {k} |-> f[x]]

MinKey(f) == CHOOSE k \in DOMAIN f : \A j \in DOMAIN f : k <= j

\* the program gives up the reference held in root place p: pop_frame,
\* pop_catchtable, pop_stack, pop_task, a timer or ticker that is cleared, a
\* fiber that was resumed, a worker that was closed, a member set to null
DropRoot(p) ==
  /\ UNCHANGED <<schedVars, interpVars>>
  /\ running
  /\ steps < MaxSteps
  /\ (p = "frames") => frames # nullptr
  /\ (p = "catchstack") => catchstack # nullptr
  /\ (p = "stack") => stack # <<>>
  /\ (p = "task_queue") => task_queue # <<>>
  /\ (p = "timers") => DOMAIN timers # {}
  /\ (p = "tickers") => DOMAIN tickers # {}
  /\ (p = "paused_threads") => DOMAIN paused_threads # {}
  /\ (p = "worker_threads") => DOMAIN worker_threads # {}
  /\ frames' = IF p = "frames" THEN cell[frames].slots.parent ELSE frames
  /\ catchstack' = IF p = "catchstack" THEN cell[catchstack].slots.parent ELSE catchstack
  /\ uncaught_exception_handler' =
       IF p = "uncaught_exception_handler" THEN kNull ELSE uncaught_exception_handler
  /\ internal_error_class' = IF p = "internal_error_class" THEN kNull ELSE internal_error_class
  /\ globals' = IF p = "globals" THEN kNull ELSE globals
  /\ primitive' = IF p = "primitive_array" THEN [primitive EXCEPT !["array"] = kNull]
                  ELSE IF p = "primitive_value" THEN [primitive EXCEPT !["value"] = kNull]
                  ELSE primitive
  /\ stack' = IF p = "stack" THEN SubSeq(stack, 1, Len(stack) - 1) ELSE stack
  /\ task_queue' = IF p = "task_queue" THEN Tail(task_queue) ELSE task_queue
  /\ timers' = IF p = "timers" THEN Without(timers, MinKey(timers)) ELSE timers
  /\ tickers' = IF p = "tickers" THEN Without(tickers, MinKey(tickers)) ELSE tickers
  /\ paused_threads' = IF p = "paused_threads"
                       THEN Without(paused_threads, MinKey(paused_threads))
                       ELSE paused_threads
  /\ worker_threads' = IF p = "worker_threads"
                       THEN Without(worker_threads, MinKey(worker_threads))
                       ELSE worker_threads
  /\ <<frames, catchstack, uncaught_exception_handler, internal_error_class, globals,
       primitive, stack, task_queue, timers, tickers, paused_threads, worker_threads>>'
       # <<frames, catchstack, uncaught_exception_handler, internal_error_class, globals,
           primitive, stack, task_queue, timers, tickers, paused_threads, worker_threads>>
  /\ steps' = steps + 1
  /\ alloc_result' = nullptr /\ collected' = FALSE /\ cleaned' = {}
  /\ UNCHANGED <<gcVars, running, pop_queue>>

\* GarbageCollector::mark_persistent
mark_persistent(value) ==
  /\ UNCHANGED <<schedVars, interpVars>>
  /\ steps < MaxSteps
  /\ temporaries' = temporaries \cup {value}
  /\ steps' = steps + 1
  /\ alloc_result' = nullptr /\ collected' = FALSE /\ cleaned' = {}
  /\ UNCHANGED <<heaps, cell, free_cell, remaining_free_cells, rootVars>>

\* GarbageCollector::unmark_persistent
unmark_persistent(value) ==
  /\ UNCHANGED <<schedVars, interpVars>>
  /\ steps < MaxSteps
  /\ temporaries' = IF value \in temporaries THEN temporaries \ {value} ELSE temporaries
  /\ steps' = steps + 1
  /\ alloc_result' = nullptr /\ collected' = FALSE /\ cleaned' = {}
  /\ UNCHANGED <<heaps, cell, free_cell, remaining_free_cells, rootVars>>

\* GarbageCollector::do_collect, called by the program or by VM::~VM
do_collect ==
  /\ UNCHANGED <<schedVars, interpVars>>
  /\ steps < MaxSteps
  /\ LET g == collect(GC)
     IN /\ SetGC(g)
        /\ cell' = g.cell
        /\ pop_queue' = g.pop_queue
  /\ steps' = steps + 1
  /\ UNCHANGED <<temporaries, running, frames, catchstack, uncaught_exception_handler,
                 internal_error_class, globals, primitive, stack, task_queue, timers,
                 tickers, paused_threads, worker_threads>>

\* the VM stops running (VM::exit); its destructor collects afterwards
exit ==
  /\ UNCHANGED <<schedVars, interpVars>>
  /\ running
  /\ steps < MaxSteps
  /\ running' = FALSE
  /\ steps' = steps + 1
  /\ alloc_result' = nullptr /\ collected' = FALSE /\ cleaned' = {}
  /\ UNCHANGED <<gcVars, frames, catchstack, uncaught_exception_handler,
                 internal_error_class, globals, primitive, stack, pop_queue, task_queue,
                 timers, tickers, paused_threads, worker_threads>>

\* the collector after GarbageCollector::GarbageCollector: initial_heap_count arenas
InitHeap ==
  add_heaps([heaps |-> 0, cell |-> <<>>, free_cell |-> nullptr,
             remaining_free_cells |-> 0, pop_queue |-> <<>>, alloc_result |-> nullptr,
             collected |-> FALSE, cleaned |-> {}],
            initial_heap_count)

\* the state after VM::VM
InitGC ==
  /\ heaps = InitHeap.heaps
  /\ cell = InitHeap.cell
  /\ free_cell = InitHeap.free_cell
  /\ remaining_free_cells = InitHeap.remaining_free_cells
  /\ temporaries = {}
  /\ running = TRUE
  /\ frames = nullptr
  /\ catchstack = nullptr
  /\ uncaught_exception_handler = kNull
  /\ internal_error_class = kNull
  /\ globals = kNull
  /\ primitive = [n \in PrimitiveNames |-> kNull]
  /\ stack = <<>>
  /\ pop_queue = <<>>
  /\ task_queue = <<>>
  /\ timers = <<>>
  /\ tickers = <<>>
  /\ paused_threads = <<>>
  /\ worker_threads = <<>>
  /\ alloc_result = nullptr
  /\ collected = FALSE
  /\ cleaned = {}
  /\ steps = 0
  /\ next_thread_id = 0
  /\ next_timer_id = 0
  /\ uid = 0
  /\ ip = nullptr
  /\ halted = FALSE
  /\ now = 0
  /\ pc = "loop"
  /\ worker_state = <<>>
  /\ enq_log = <<>>
  /\ run_log = <<>>
  /\ timer_log = {}
  /\ cleared = {}
  /\ suspend_log = <<>>
  /\ last_drain = <<>>
  /\ status_code = 0
  /\ native_log = <<>>
  /\ gen_log = <<>>
  /\ try_regions = {}
  /\ last_op = ""
  /\ code = <<>>
  /\ InitLocks
  /\ NoCall
  /\ NoParse

vars == <<gcVars, rootVars, obsVars, schedVars, interpVars>>

LiveCells == {c \in DOMAIN cell : cell[c].type # kTypeDead}

NextGC ==
  \/ \E p \in RootPlaces : \E t \in PlaceTypes(p) : \E i \in ArgIndexes(p) : Allocate(p, t, i)
  \/ \E c0 \in LiveCells : \E f \in FieldPlaces(cell[c0].type) :
       \E t \in FieldTypes(cell[c0].type, f) : AllocateField(c0, f, t)
  \/ \E c0 \in LiveCells : \E f \in FieldPlaces(cell[c0].type) : \E v \in LiveCells :
       Link(c0, f, v)
  \/ \E c0 \in LiveCells : Finish(c0)
  \/ \E p \in DropPlaces : DropRoot(p)
  \/ \E v \in LiveCells : mark_persistent(v)
  \/ \E v \in LiveCells : unmark_persistent(v)
  \/ do_collect
  \/ exit

SpecGC == InitGC /\ [][NextGC]_vars

(***************************************************************************)
(* The scheduler (VM::start_runtime and the operations of include/vm.h     *)
(* that tasks call).  A task is a short program of scheduler operations;   *)
(* pc is the position of the main thread: "loop" between tasks, "run"      *)
(* inside a task, "exited" after the main loop.                            *)
(***************************************************************************)
MaxTime == 2       \* the clock stops advancing here

\* std::queue<VMTask>
queue_push(q, t) == Append(q, t)

\* queue_front with the bug of taking the newest element
queue_front_newest(q) == q[Len(q)]

queue_front(q) == Head(q)

queue_pop(q) == Tail(q)

\* std::map: an insertion under a key the map already holds either leaves
\* the map alone (insert, emplace) or replaces the entry (operator[])
MapInsert(f, k, v, replace) ==
  IF k \in DOMAIN f /\ ~replace THEN f
  ELSE [x \in (DOMAIN f) \cup {k} |-> IF x = k THEN v ELSE f[x]]

\* the function of the module and the native function it passes to workers:
\* the first two cells the program allocates
MainFunction == InitHeap.free_cell

NativeFunction == InitHeap.cell[InitHeap.free_cell].next

\* VM::register_task
register_task(q, task) == queue_push(q, task)

\* the history entry of an enqueued task
Enqueued(task, src, k) == [task |-> task, src |-> src, worker |-> k]

\* the part of the state a scheduler operation leaves alone when it does not
\* allocate
NoAllocationVM ==
  /\ alloc_result' = nullptr /\ collected' = FALSE /\ cleaned' = {}
  /\ UNCHANGED <<gcVars, running, internal_error_class, globals, primitive, pop_queue>>

\* the same for an operation of the scheduler, which leaves the interpreter's
\* state alone too
NoAllocation ==
  /\ NoAllocationVM
  /\ UNCHANGED <<uncaught_exception_handler, interpVars>>

\* a task is running and may execute one more scheduler operation
InTask == pc = "run" /\ steps < MaxSteps

\* VM::register_timer(ts, task): the task gets the next timer id and is
\* stored in the timers under its timestamp
register_timer(ts) ==
  /\ InTask
  /\ LET task == init_callback_with_id(next_timer_id, MainFunction, kNull, kNull, kNull, kNull)
     IN \E replace \in BOOLEAN : timers' = MapInsert(timers, ts, task, replace)
  /\ timer_log' = timer_log \cup
       {[uid |-> next_timer_id, kind |-> "timer", ts |-> ts, period |-> 0,
         pos |-> Cardinality(timer_log)]}
  /\ next_timer_id' = next_timer_id + 1
  /\ steps' = steps + 1
  /\ ip' = ip + 1
  /\ NoAllocation
  /\ UNCHANGED <<frames, catchstack, stack, task_queue, tickers, paused_threads,
                 worker_threads, next_thread_id, uid, halted, now, pc, worker_state,
                 enq_log, run_log, cleared, suspend_log, last_drain>>

\* VM::register_ticker(period, task): first fire one period from now
register_ticker(period) ==
  /\ InTask
  /\ LET task == init_callback_with_id(next_timer_id, MainFunction, kNull, kNull, kNull, kNull)
     IN \E replace \in BOOLEAN :
          tickers' = MapInsert(tickers, now + period, [task |-> task, period |-> period],
                               replace)
  /\ timer_log' = timer_log \cup
       {[uid |-> next_timer_id, kind |-> "ticker", ts |-> now + period, period |-> period,
         pos |-> Cardinality(timer_log)]}
  /\ next_timer_id' = next_timer_id + 1
  /\ steps' = steps + 1
  /\ ip' = ip + 1
  /\ NoAllocation
  /\ UNCHANGED <<frames, catchstack, stack, task_queue, timers, paused_threads,
                 worker_threads, next_thread_id, uid, halted, now, pc, worker_state,
                 enq_log, run_log, cleared, suspend_log, last_drain>>

\* a timer map after the entry whose task has the id, if any, was erased
EraseUid(f, id, isTicker) ==
  LET found == {k \in DOMAIN f : (IF isTicker THEN f[k].task.uid ELSE f[k].uid) = id}
  IN IF found = {} THEN f ELSE Without(f, MinKey([k \in found |-> f[k]]))

\* VM::clear_timer(uid)
clear_timer(id) ==
  /\ InTask
  /\ timers' = EraseUid(timers, id, FALSE)
  /\ cleared' = cleared \cup {id}
  /\ steps' = steps + 1
  /\ ip' = ip + 1
  /\ NoAllocation
  /\ UNCHANGED <<frames, catchstack, stack, task_queue, tickers, paused_threads,
                 worker_threads, next_thread_id, next_timer_id, uid, halted, now, pc,
                 worker_state, enq_log, run_log, timer_log, suspend_log, last_drain>>

\* VM::clear_ticker(uid)
clear_ticker(id) ==
  /\ InTask
  /\ tickers' = EraseUid(tickers, id, TRUE)
  /\ cleared' = cleared \cup {id}
  /\ steps' = steps + 1
  /\ ip' = ip + 1
  /\ NoAllocation
  /\ UNCHANGED <<frames, catchstack, stack, task_queue, timers, paused_threads,
                 worker_threads, next_thread_id, next_timer_id, uid, halted, now, pc,
                 worker_state, enq_log, run_log, timer_log, suspend_log, last_drain>>

\* VM::suspend_thread: the running fiber is stored in paused_threads under a
\* new fiber id and control returns to the scheduler
suspend_thread ==
  /\ InTask
  /\ LET id == next_thread_id
         thread == VMThread(id, stack, frames, catchstack, ip + 1)
     IN /\ paused_threads' = MapInsert(paused_threads, id, thread, FALSE)
        /\ suspend_log' = Append(suspend_log, [key |-> id, thread |-> thread])
  /\ next_thread_id' = next_thread_id + 1
  /\ stack' = <<>>
  /\ halted' = TRUE
  /\ pc' = "loop"
  /\ steps' = steps + 1
  /\ ip' = ip + 1
  /\ NoAllocation
  /\ UNCHANGED <<frames, catchstack, task_queue, timers, tickers, worker_threads,
                 next_timer_id, uid, now, worker_state, enq_log, run_log, timer_log,
                 cleared, last_drain>>

\* the fiber ids a queued task is about to resume
PendingResumes == {task_queue[i].id : i \in {j \in DOMAIN task_queue : task_queue[j].is_thread}}

\* VM::resume_thread(uid, argument)
resume_thread(id, argument) ==
  /\ InTask
  /\ id \in DOMAIN paused_threads
  /\ id \notin PendingResumes
  /\ LET task == init_thread(id, argument)
     IN /\ task_queue' = register_task(task_queue, task)
        /\ enq_log' = Append(enq_log, Enqueued(task, "resume", 0))
  /\ steps' = steps + 1
  /\ ip' = ip + 1
  /\ NoAllocation
  /\ UNCHANGED <<frames, catchstack, stack, timers, tickers, paused_threads,
                 worker_threads, next_thread_id, next_timer_id, uid, halted, now, pc,
                 worker_state, run_log, timer_log, cleared, suspend_log, last_drain>>

\* VM::start_worker_thread(cfunc, args, callback): a record of the worker is
\* kept in worker_threads and a host thread starts on the native function
start_worker_thread(cfunc, args, callback) ==
  /\ InTask
  /\ LET k == Len(worker_state) + 1
     IN /\ worker_threads' = MapInsert(worker_threads, k, WorkerThread(cfunc, args, callback),
                                       FALSE)
        /\ worker_state' = Append(worker_state, "running")
  /\ steps' = steps + 1
  /\ ip' = ip + 1
  /\ NoAllocation
  /\ UNCHANGED <<frames, catchstack, stack, task_queue, timers, tickers, paused_threads,
                 next_thread_id, next_timer_id, uid, halted, now, pc, enq_log, run_log,
                 timer_log, cleared, suspend_log, last_drain>>

\* what the native function of worker k returns, and the error value kept
\* when it throws
NativeResult(k) == 200 + k

NativeError(k) == 300 + k

\* the body of the host thread of worker k: the native call, then
\* VM::close_worker_thread(thread, return_value), which enqueues the
\* callback and forgets the record
close_worker_thread(k, threw) ==
  /\ k \in DOMAIN worker_threads
  /\ LET w == [worker_threads[k] EXCEPT
                 !.error_value = IF threw THEN NativeError(k) ELSE @]
         return_value == IF threw THEN kNull ELSE NativeResult(k)
         task == init_callback(w.callback, return_value, w.error_value, kNull, kNull)
     IN /\ task_queue' = register_task(task_queue, task)
        /\ enq_log' = Append(enq_log, Enqueued(task, "worker", k))
  /\ worker_threads' = Without(worker_threads, k)
  /\ worker_state' = [worker_state EXCEPT ![k] = "closed"]
  /\ NoAllocation
  /\ UNCHANGED <<frames, catchstack, stack, timers, tickers, paused_threads,
                 next_thread_id, next_timer_id, uid, ip, halted, now, pc, run_log,
                 timer_log, cleared, suspend_log, last_drain, steps>>

\* the running task returns from its root-level frame (halt_after_return)
Return ==
  /\ pc = "run"
  /\ pc' = "loop"
  /\ stack' = <<>>
  /\ frames' = nullptr
  /\ ip' = nullptr
  /\ halted' = TRUE
  /\ NoAllocation
  /\ UNCHANGED <<catchstack, task_queue, timers, tickers, paused_threads, worker_threads,
                 next_thread_id, next_timer_id, uid, now, worker_state, enq_log, run_log,
                 timer_log, cleared, suspend_log, last_drain, steps>>

\* the steady clock advances
Tick ==
  /\ now < MaxTime
  /\ now' = now + 1
  /\ NoAllocation
  /\ UNCHANGED <<frames, catchstack, stack, task_queue, timers, tickers, paused_threads,
                 worker_threads, next_thread_id, next_timer_id, uid, ip, halted, pc,
                 worker_state, enq_log, run_log, timer_log, cleared, suspend_log,
                 last_drain, steps>>

\* NothingLeft with the bug of forgetting the suspended fibers
NothingLeft_but_fibers ==
  /\ task_queue = <<>>
  /\ DOMAIN timers = {}
  /\ DOMAIN tickers = {}
  /\ DOMAIN worker_threads = {}

\* the condition on which the main loop ends
NothingLeft ==
  /\ task_queue = <<>>
  /\ DOMAIN timers = {}
  /\ DOMAIN tickers = {}
  /\ DOMAIN worker_threads = {}
  /\ DOMAIN paused_threads = {}

\* the keys of a timer map whose fire time is past
Due(f) == {k \in DOMAIN f : k <= now}

\* the due tickers, in key order: each is enqueued once and registered again
\* one period after the fire time it had
RECURSIVE DrainTickers(_, _, _)
DrainTickers(s, keys, replace) ==
  IF keys = <<>> THEN s
  ELSE LET k == Head(keys)
       IN IF k \notin DOMAIN s.tickers THEN DrainTickers(s, Tail(keys), replace)
          ELSE LET e == s.tickers[k]
               IN DrainTickers([tickers |-> MapInsert(Without(s.tickers, k), k + e.period,
                                                      e, replace),
                                fired |-> Append(s.fired, e.task)],
                               Tail(keys), replace)

\* VM::start_runtime, the end of the main loop
MainLoopExit ==
  /\ pc = "loop"
  /\ NothingLeft
  /\ pc' = "exited"
  /\ NoAllocation
  /\ UNCHANGED <<frames, catchstack, stack, task_queue, timers, tickers, paused_threads,
                 worker_threads, next_thread_id, next_timer_id, uid, ip, halted, now,
                 worker_state, enq_log, run_log, timer_log, cleared, suspend_log,
                 last_drain, steps>>

\* VM::start_runtime, one iteration of the main loop once the wait is over:
\* the due timers and tickers are drained into the task queue, the front
\* task is popped and started
MainLoop ==
  /\ pc = "loop"
  /\ ~NothingLeft
  /\ task_queue # <<>> \/ Due(timers) # {} \/ Due(tickers) # {}
  /\ \E replace \in BOOLEAN :
       LET firedTimers == [i \in 1 .. Cardinality(Due(timers)) |->
                             timers[SetToSeq(Due(timers))[i]]]
           d == DrainTickers([tickers |-> tickers, fired |-> <<>>],
                             SetToSeq(Due(tickers)), replace)
           q1 == task_queue \o firedTimers \o d.fired
           task == queue_front(q1)
       IN /\ timers' = [k \in (DOMAIN timers) \ Due(timers) |-> timers[k]]
          /\ tickers' = d.tickers
          /\ enq_log' = enq_log
               \o [i \in 1 .. Len(firedTimers) |-> Enqueued(firedTimers[i], "timer", 0)]
               \o [i \in 1 .. Len(d.fired) |-> Enqueued(d.fired[i], "ticker", 0)]
          /\ last_drain' = <<[timers |-> firedTimers, tickers |-> d.fired]>>
          /\ task_queue' = queue_pop(q1)
          /\ run_log' = Append(run_log, task)
          /\ IF task.is_thread
             THEN /\ task.id \in DOMAIN paused_threads
                  /\ LET thread == paused_threads[task.id]
                     IN /\ stack' = thread.stack \o <<task.argument>>
                        /\ frames' = thread.frame
                        /\ catchstack' = thread.catchstack
                        /\ ip' = thread.resume_address
                  /\ uid' = task.id
                  /\ paused_threads' = Without(paused_threads, task.id)
                  /\ NoAllocation
             ELSE LET g == allocate(GC)
                      c == g.alloc_result
                  IN /\ g.heaps <= MaxHeaps
                     /\ SetGC(g)
                     /\ cell' = [g.cell EXCEPT
                                   ![c] = [MemoryCell(kTypeFrame, nullptr) EXCEPT
                                             !.f2 = TRUE,
                                             !.slots.caller_value = task.func,
                                             !.data = {v \in Range(task.arguments) :
                                                         charly_is_ptr(v) /\ v # nullptr}]]
                     /\ pop_queue' = g.pop_queue
                     /\ frames' = c
                     /\ catchstack' = nullptr
                     /\ stack' = task.arguments
                     /\ ip' = 1
                     /\ uid' = task.uid
                     /\ UNCHANGED <<paused_threads, temporaries, running,
                                    uncaught_exception_handler, internal_error_class,
                                    globals, primitive, interpVars>>
  /\ halted' = FALSE
  /\ pc' = "run"
  /\ UNCHANGED <<worker_threads, next_thread_id, next_timer_id, now, worker_state,
                 timer_log, cleared, suspend_log, steps>>

\* the state when VM::start_runtime enters the main loop: the function of the
\* module and a native function are allocated and the task calling the
\* function is queued
InitRuntime ==
  /\ temporaries = {}
  /\ running = TRUE
  /\ frames = nullptr
  /\ catchstack = nullptr
  /\ uncaught_exception_handler = kNull
  /\ internal_error_class = kNull
  /\ globals = kNull
  /\ primitive = [n \in PrimitiveNames |-> kNull]
  /\ stack = <<>>
  /\ pop_queue = <<>>
  /\ task_queue = <<init_callback(MainFunction, NativeFunction, kNull, kNull, kNull)>>
  /\ timers = <<>>
  /\ tickers = <<>>
  /\ paused_threads = <<>>
  /\ worker_threads = <<>>
  /\ LET g1 == allocate(InitHeap)
         g2 == allocate([g1 EXCEPT !.cell[g1.alloc_result] =
                                     MemoryCell(kTypeFunction, nullptr)])
         g == [g2 EXCEPT !.cell[g2.alloc_result] =
                           [MemoryCell(kTypeCFunction, nullptr) EXCEPT
                              !.members.thread_policy = kThreadBoth]]
     IN /\ heaps = g.heaps
        /\ cell = g.cell
        /\ free_cell = g.free_cell
        /\ remaining_free_cells = g.remaining_free_cells
  /\ alloc_result = nullptr
  /\ collected = FALSE
  /\ cleaned = {}
  /\ steps = 0
  /\ next_thread_id = 0
  /\ next_timer_id = 0
  /\ uid = 0
  /\ ip = nullptr
  /\ halted = FALSE
  /\ now = 0
  /\ pc = "loop"
  /\ worker_state = <<>>
  /\ enq_log = <<[task |-> init_callback(MainFunction, NativeFunction, kNull, kNull, kNull),
                  src |-> "main", worker |-> 0]>>
  /\ run_log = <<>>
  /\ timer_log = {}
  /\ cleared = {}
  /\ suspend_log = <<>>
  /\ last_drain = <<>>
  /\ status_code = 0
  /\ native_log = <<>>
  /\ gen_log = <<>>
  /\ try_regions = {}
  /\ last_op = ""
  /\ InitLocks
  /\ NoCall
  /\ NoParse

\* the runtime started without a compiled program: the model draws the
\* operations of the running task
InitSched == InitRuntime /\ code = <<>>

NextSched ==
  \/ \E ts \in now .. MaxTime : register_timer(ts)
  \/ \E period \in 1 .. 2 : register_ticker(period)
  \/ \E id \in {r.uid : r \in {x \in timer_log : x.kind = "timer"}} : clear_timer(id)
  \/ \E id \in {r.uid : r \in {x \in timer_log : x.kind = "ticker"}} : clear_ticker(id)
  \/ suspend_thread
  \/ \E id \in DOMAIN paused_threads : resume_thread(id, 100 + id)
  \/ \E cfunc \in {v \in Range(stack) : charly_is_ptr(v) /\ v # nullptr} :
       /\ cell[cfunc].type = kTypeCFunction
       /\ start_worker_thread(cfunc, <<frames>>, MainFunction)
  \/ \E k \in DOMAIN worker_threads : \E threw \in BOOLEAN : close_worker_thread(k, threw)
  \/ Return
  \/ Tick
  \/ MainLoop
  \/ MainLoopExit
  \/ do_collect

SpecSched == InitSched /\ [][NextSched]_vars

\* the main thread keeps running its loop
SpecSchedFair == SpecSched /\ WF_vars(MainLoopExit)

(***************************************************************************)
(* The interpreter (include/vm.h): operand stack, frame chain and          *)
(* catch-table chain, calls, returns and exceptions.  A task started by    *)
(* the main loop executes opcodes until its root-level frame returns.      *)
(***************************************************************************)
\* number of opcodes a run of the interpreter executes
MaxOps == 5

\* VM::is_main_thread, VM::is_worker_thread
is_main_thread(thread) == thread = main_thread_id

is_worker_thread(thread) == thread # main_thread_id

\* bitwise and of two uint8_t
RECURSIVE BitAnd(_, _)
BitAnd(a, b) ==
  IF a = 0 \/ b = 0 THEN 0
  ELSE (IF a % 2 = 1 /\ b % 2 = 1 THEN 1 ELSE 0) + 2 * BitAnd(a \div 2, b \div 2)

\* CFunction::allowed_on_main_thread
allowed_on_main_thread(function) == BitAnd(function.members.thread_policy, kThreadMain) # 0

\* allowed_on_worker_thread with the bug of allowing every function
allowed_on_worker_thread_any(function) == TRUE

\* CFunction::allowed_on_worker_thread
allowed_on_worker_thread(function) ==
  BitAnd(function.members.thread_policy, kThreadWorker) # 0

\* the frames on the frame chain that starts at frame f of heap h
RECURSIVE FrameChain(_, _)
FrameChain(h, f) ==
  IF f = nullptr THEN {} ELSE {f} \cup FrameChain(h, h[f].slots.parent)

\* the catch-tables on the chain that starts at table t of heap h, topmost
\* first
RECURSIVE CatchChain(_, _)
CatchChain(h, t) ==
  IF t = nullptr THEN <<>> ELSE <<t>> \o CatchChain(h, h[t].slots.parent)

\* the first table of a chain that satisfies ok, nullptr when there is none
FirstTable(chain, ok(_)) ==
  LET s == SelectSeq(chain, ok) IN IF s = <<>> THEN nullptr ELSE Head(s)

\* the registers of the interpreter and the heap they point into
Machine ==
  [stack |-> stack, frames |-> frames, catchstack |-> catchstack, ip |-> ip,
   halted |-> halted, status_code |-> status_code, native_log |-> native_log,
   try_regions |-> try_regions, last_op |-> last_op, gen_log |-> gen_log,
   cell |-> cell]

\* the machine after the dispatch loop read an opcode: the instruction
\* pointer is advanced past it, and the opcode works on heap h
Fetched(h) == [Machine EXCEPT !.ip = @ + 1, !.cell = h, !.last_op = "op"]

\* the pointers among the values of a sequence
Pointers(values) == {v \in Range(values) : charly_is_ptr(v) /\ v # nullptr}

\* VM::pop_stack
pop_stack(m) == [m EXCEPT !.stack = SubSeq(@, 1, Len(@) - 1)]

\* VM::push_stack
push_stack(m, value) == [m EXCEPT !.stack = Append(@, value)]

\* the top of the operand stack
Top(m) == m.stack[Len(m.stack)]

\* the reasons of a panic: a call the thread policy forbids, an exception
\* nothing catches
kStatusThreadPolicy == 1
kStatusUncaughtException == 2

\* VM::panic(reason): a fatal error, the status code is set and the machine
\* halts
panic(m, reason) == [m EXCEPT !.status_code = reason, !.halted = TRUE]

\* VM::create_frame(self, calling_function, return_address,
\* halt_after_return), in the newly allocated cell c
create_frame(m, c, self, function, return_address, halt_after_return) ==
  [m EXCEPT
     !.cell[c] = [MemoryCell(kTypeFrame, nullptr) EXCEPT
                    !.f2 = halt_after_return,
                    !.slots.parent = m.frames,
                    !.slots.parent_environment_frame = m.cell[function].slots.context,
                    !.slots.last_active_catchtable = m.catchstack,
                    !.slots.caller_value = function,
                    !.slots.self = self,
                    !.members.stacksize_at_entry = Len(m.stack),
                    !.members.return_address = return_address],
     !.frames = c]

\* VM::pop_frame
pop_frame(m) == [m EXCEPT !.frames = m.cell[m.frames].slots.parent]

\* VM::create_catchtable(address), in the newly allocated cell c
create_catchtable(m, c, address) ==
  [m EXCEPT
     !.cell[c] = [MemoryCell(kTypeCatchTable, nullptr) EXCEPT
                    !.slots.frame = m.frames,
                    !.slots.parent = m.catchstack,
                    !.members.address = address,
                    !.members.stacksize = Len(m.stack)],
     !.catchstack = c]

\* VM::pop_catchtable
pop_catchtable(m) == [m EXCEPT !.catchstack = m.cell[m.catchstack].slots.parent]

\* VM::call_function(function, argc, argv, self, halt_after_return): a new
\* frame in cell c holds the arguments as locals, the body is entered
call_function(m, c, function, argv, self, halt_after_return) ==
  LET m1 == create_frame(m, c, self, function, m.ip, halt_after_return)
  IN [m1 EXCEPT !.cell[c].data = Pointers(argv),
                !.ip = m.cell[function].members.body_address]

\* what a native function returns to the interpreter
NativeReturn == 200

\* VM::call_cfunction(function, argc, argv) on the given thread: the thread
\* policy is asserted, then the native pointer is called
call_cfunction(m, function, thread) ==
  LET f == m.cell[function]
  IN IF \/ is_main_thread(thread) /\ ~allowed_on_main_thread(f)
        \/ is_worker_thread(thread) /\ ~allowed_on_worker_thread(f)
     THEN panic(m, kStatusThreadPolicy)
     ELSE [m EXCEPT !.native_log = Append(@, [function |-> function, thread |-> thread,
                                              thread_policy |-> f.members.thread_policy]),
                    !.stack = IF is_main_thread(thread) THEN Append(@, NativeReturn) ELSE @]

\* the try region control is in: the topmost table of the current frame
\* whose region is being executed
InnermostRegion(m) ==
  LET ok(t) == m.cell[t].slots.frame = m.frames /\ t \in m.try_regions
  IN FirstTable(CatchChain(m.cell, m.catchstack), ok)

\* the depth the compiled code of the current frame never pops below: the
\* depth at its entry and at the registration of its catch-tables
StackFloor ==
  LET depths == {cell[frames].members.stacksize_at_entry}
                  \cup {cell[t].members.stacksize :
                          t \in {x \in Range(CatchChain(cell, catchstack)) :
                                   cell[x].slots.frame = frames}}
  IN CHOOSE d \in depths : \A e \in depths : e <= d

\* unwind_catchstack with the bug of leaving the operand stack as it is
unwind_catchstack_no_trim(m, c, payload) ==
  LET live(t) == m.cell[t].slots.frame \in FrameChain(m.cell, m.frames)
      table == FirstTable(CatchChain(m.cell, m.catchstack), live)
  IN IF table # nullptr
     THEN LET t == m.cell[table]
          IN [m EXCEPT !.frames = t.slots.frame,
                       !.stack = Append(m.stack, payload),
                       !.ip = t.members.address,
                       !.catchstack = t.slots.parent,
                       !.try_regions = @ \cap Range(CatchChain(m.cell, t.slots.parent))]
     ELSE IF uncaught_exception_handler # kNull
     THEN call_function([m EXCEPT !.catchstack = nullptr, !.try_regions = {}],
                        c, uncaught_exception_handler, <<payload>>, kNull, FALSE)
     ELSE panic([m EXCEPT !.catchstack = nullptr, !.try_regions = {}],
                kStatusUncaughtException)

\* VM::unwind_catchstack(payload): the tables of discarded frames are
\* skipped, the frames above the handling table's frame are popped, the
\* stack is trimmed to the table's depth, the payload pushed, the handler
\* entered and the table popped; without a table the uncaught-exception
\* handler is called in a frame in cell c, or the machine halts with an error
unwind_catchstack(m, c, payload) ==
  LET live(t) == m.cell[t].slots.frame \in FrameChain(m.cell, m.frames)
      table == FirstTable(CatchChain(m.cell, m.catchstack), live)
  IN IF table # nullptr
     THEN LET t == m.cell[table]
          IN [m EXCEPT !.frames = t.slots.frame,
                       !.stack = Append(SubSeq(m.stack, 1, t.members.stacksize), payload),
                       !.ip = t.members.address,
                       !.catchstack = t.slots.parent,
                       !.try_regions = @ \cap Range(CatchChain(m.cell, t.slots.parent))]
     ELSE IF uncaught_exception_handler # kNull
     THEN call_function([m EXCEPT !.catchstack = nullptr, !.try_regions = {}],
                        c, uncaught_exception_handler, <<payload>>, kNull, FALSE)
     ELSE panic([m EXCEPT !.catchstack = nullptr, !.try_regions = {}],
                kStatusUncaughtException)

\* value points to a generator of heap h
IsGenerator(h, value) ==
  charly_is_ptr(value) /\ value # nullptr /\ h[value].type = kTypeGenerator

\* Return with the bug of leaving the operand stack as the function left it
Returned_no_trim(m) ==
  LET frame == m.cell[m.frames]
  IN [pop_frame(m) EXCEPT
        !.catchstack = frame.slots.last_active_catchtable,
        !.ip = frame.members.return_address,
        !.halted = frame.f2,
        !.try_regions = {t \in @ : m.cell[t].slots.frame # m.frames},
        !.cell = IF IsGenerator(m.cell, frame.slots.caller_value)
                 THEN [@ EXCEPT ![frame.slots.caller_value].f1 = TRUE]
                 ELSE @]

\* the machine after Return: the return value is popped, the frame popped,
\* the return address and the catch-table of the call restored, the stack
\* trimmed to the depth at entry and the return value pushed
Returned(m) ==
  LET frame == m.cell[m.frames]
      return_value == Top(m)
  IN [pop_frame(m) EXCEPT
        !.catchstack = frame.slots.last_active_catchtable,
        !.ip = frame.members.return_address,
        !.stack = Append(SubSeq(m.stack, 1, frame.members.stacksize_at_entry),
                         return_value),
        !.halted = frame.f2,
        !.try_regions = {t \in @ : m.cell[t].slots.frame # m.frames},
        !.cell = IF IsGenerator(m.cell, frame.slots.caller_value)
                 THEN [@ EXCEPT ![frame.slots.caller_value].f1 = TRUE]
                 ELSE @]

\* charly_truthyness of the values of the model: null and a finished
\* generator are false
charly_truthyness(h, value) ==
  IF value = kNull THEN FALSE
  ELSE IF IsGenerator(h, value) THEN ~h[value].f1
  ELSE TRUE

\* the payload thrown when a finished generator is called
kGeneratorFinished == 400

\* calling a finished generator throws an exception
call_finished_generator(m, c) == unwind_catchstack(m, c, kGeneratorFinished)

\* VM::call_generator(generator, argc, argv) without arguments: calling a
\* finished generator throws; otherwise the frame of the generator becomes
\* current on top of the caller, the saved values go back on the stack, with
\* the argument of the call when the generator has started, and the body
\* continues at the resume address
call_generator(m, c, generator) ==
  LET g == m.cell[generator]
      f == g.slots.context_frame
  IN IF g.f1
     THEN call_finished_generator(m, c)
     ELSE [m EXCEPT
             !.cell[f].slots.parent = m.frames,
             !.cell[f].slots.last_active_catchtable = m.catchstack,
             !.cell[f].slots.caller_value = generator,
             !.cell[f].members.stacksize_at_entry = Len(m.stack),
             !.cell[f].members.return_address = m.ip,
             !.cell[f].f2 = FALSE,
             !.cell[generator].f2 = TRUE,
             !.cell[generator].members.context_stack = <<>>,
             !.cell[generator].data = {},
             !.frames = f,
             !.catchstack = g.slots.context_catchtable,
             !.ip = g.members.resume_address,
             !.stack = m.stack \o g.members.context_stack
                         \o (IF g.f2 THEN <<kNull>> ELSE <<>>)]

\* the machine after Yield: the yielded value is popped, the generator keeps
\* its part of the stack, its catch-table and the address to resume at, the
\* caller's frame, catch-table and return address are restored and the
\* yielded value is pushed
Yielded(m) ==
  LET f == m.cell[m.frames]
      generator == f.slots.caller_value
      depth == f.members.stacksize_at_entry
      saved == SubSeq(m.stack, depth + 1, Len(m.stack) - 1)
  IN [m EXCEPT
        !.cell[generator].members.context_stack = saved,
        !.cell[generator].data = Pointers(saved),
        !.cell[generator].slots.context_catchtable = m.catchstack,
        !.cell[generator].members.resume_address = m.ip,
        !.frames = f.slots.parent,
        !.catchstack = f.slots.last_active_catchtable,
        !.ip = f.members.return_address,
        !.stack = Append(SubSeq(m.stack, 1, depth), Top(m)),
        !.gen_log = Append(@, [generator |-> generator, value |-> Top(m)])]

\* the scheduler state no opcode touches
schedState ==
  <<task_queue, timers, tickers, paused_threads, worker_threads, next_thread_id,
    next_timer_id, uid, now, worker_state, enq_log, run_log, timer_log, cleared,
    suspend_log, last_drain>>

\* the interpreter executes opcodes: a task runs, nothing halted the machine.
\* Without a loaded program the opcodes are drawn freely, MaxOps of them
Executing ==
  /\ pc = "run" /\ ~halted /\ status_code = 0
  /\ code = <<>> => steps < MaxOps

\* the state after an opcode left machine m and collector g: VM::run stops
\* when the machine halted, and the scheduler or the host takes over
Executed(m, g) ==
  /\ g.heaps <= MaxHeaps
  /\ SetGC(g)
  /\ pop_queue' = g.pop_queue
  /\ cell' = m.cell
  /\ stack' = m.stack
  /\ frames' = m.frames
  /\ catchstack' = m.catchstack
  /\ ip' = m.ip
  /\ halted' = m.halted
  /\ status_code' = m.status_code
  /\ native_log' = m.native_log
  /\ try_regions' = m.try_regions
  /\ last_op' = m.last_op
  /\ gen_log' = m.gen_log
  /\ pc' = IF m.status_code # 0 THEN "panic" ELSE IF m.halted THEN "loop" ELSE "run"
  /\ steps' = IF code = <<>> THEN steps + 1 ELSE steps
  /\ UNCHANGED <<temporaries, running, uncaught_exception_handler, internal_error_class,
                 globals, primitive, code, lockVars, valueVars, parserVars, schedState>>

\* VM::op_putvalue(value)
op_putvalue(value) ==
  /\ Executing
  /\ Executed(push_stack(Fetched(cell), value), GC)

\* VM::op_pop
op_pop ==
  /\ Executing
  /\ Len(stack) > StackFloor
  /\ Executed(pop_stack(Fetched(cell)), GC)

\* VM::op_putfunction: a function whose context is the current frame
op_putfunction(body_offset) ==
  /\ Executing
  /\ LET g == allocate(GC)
         c == g.alloc_result
         m == Fetched(g.cell)
     IN Executed(push_stack([m EXCEPT
                               !.cell[c] = [MemoryCell(kTypeFunction, nullptr) EXCEPT
                                              !.slots.context = frames,
                                              !.members.body_address = m.ip + body_offset]],
                            c), g)

\* VM::create_cfunction(name, argc, pointer, thread_policy), the native
\* function is left on the stack
create_cfunction(thread_policy) ==
  /\ Executing
  /\ LET g == allocate(GC)
         c == g.alloc_result
         m == Fetched(g.cell)
     IN Executed(push_stack([m EXCEPT
                               !.cell[c] = [MemoryCell(kTypeCFunction, nullptr) EXCEPT
                                              !.members.thread_policy = thread_policy]],
                            c), g)

\* VM::op_call(argc) without arguments: the callee is popped and the call is
\* dispatched on its type
op_call ==
  /\ Executing
  /\ Len(stack) > StackFloor
  /\ LET callee == stack[Len(stack)]
     IN /\ charly_is_ptr(callee) /\ callee # nullptr
        /\ CASE cell[callee].type = kTypeFunction ->
                  LET g == allocate(GC)
                  IN Executed(call_function(pop_stack(Fetched(g.cell)), g.alloc_result,
                                            callee, <<>>, kNull, FALSE), g)
             [] cell[callee].type = kTypeCFunction ->
                  Executed(call_cfunction(pop_stack(Fetched(cell)), callee, main_thread_id),
                           GC)
             [] cell[callee].type = kTypeGenerator ->
                  LET live(t) == cell[t].slots.frame \in FrameChain(cell, frames)
                      calls == /\ cell[callee].f1
                               /\ FirstTable(CatchChain(cell, catchstack), live) = nullptr
                               /\ uncaught_exception_handler # kNull
                      g == IF calls THEN allocate(GC) ELSE GC
                  IN Executed([call_generator(pop_stack(Fetched(g.cell)), g.alloc_result,
                                              callee)
                                 EXCEPT !.last_op = "call_generator"], g)
             [] OTHER -> FALSE

\* VM::op_return
op_return ==
  /\ Executing
  /\ frames # nullptr
  /\ Len(stack) > cell[frames].members.stacksize_at_entry
  /\ LET generator == cell[frames].slots.caller_value
     IN Executed([Returned(Fetched(cell)) EXCEPT
                    !.last_op = "return",
                    !.gen_log = IF IsGenerator(cell, generator)
                                THEN Append(@, [generator |-> generator,
                                                value |-> stack[Len(stack)]])
                                ELSE @], GC)

\* VM::op_registercatchtable(offset)
op_registercatchtable(offset) ==
  /\ Executing
  /\ LET g == allocate(GC)
         c == g.alloc_result
         m == Fetched(g.cell)
         m1 == create_catchtable(m, c, m.ip + offset)
     IN Executed([m1 EXCEPT !.try_regions = @ \cup {c}], g)

\* VM::op_popcatchtable, at the end of the try region control is in
op_popcatchtable ==
  /\ Executing
  /\ InnermostRegion(Machine) # nullptr
  /\ LET m == Fetched(cell)
     IN Executed([pop_catchtable(m) EXCEPT !.try_regions = @ \ {InnermostRegion(m)}], GC)

\* VM::op_branch(offset) compiled from a break or continue inside a try
\* region: control leaves the region, the catch chain stays as it is
op_branch(offset) ==
  /\ Executing
  /\ InnermostRegion(Machine) # nullptr
  /\ LET m == Fetched(cell)
     IN Executed([m EXCEPT !.ip = @ + offset,
                           !.try_regions = @ \ {InnermostRegion(m)}], GC)

\* VM::op_throw: the payload is popped and the catch stack unwound
op_throw ==
  /\ Executing
  /\ Len(stack) > StackFloor
  /\ LET payload == stack[Len(stack)]
         live(t) == cell[t].slots.frame \in FrameChain(cell, frames)
         calls == /\ FirstTable(CatchChain(cell, catchstack), live) = nullptr
                  /\ uncaught_exception_handler # kNull
         g == IF calls THEN allocate(GC) ELSE GC
     IN Executed([unwind_catchstack(pop_stack(Fetched(g.cell)), g.alloc_result, payload)
                    EXCEPT !.last_op = "throw"], g)

\* the program installs the function on top of the stack as the
\* uncaught-exception handler
set_uncaught_exception_handler ==
  /\ Executing
  /\ Len(stack) > StackFloor
  /\ LET function == stack[Len(stack)]
     IN /\ charly_is_ptr(function) /\ function # nullptr
        /\ cell[function].type = kTypeFunction
        /\ uncaught_exception_handler' = function
  /\ stack' = SubSeq(stack, 1, Len(stack) - 1)
  /\ ip' = ip + 1
  /\ steps' = steps + 1
  /\ last_op' = "op"
  /\ NoAllocationVM
  /\ UNCHANGED <<frames, catchstack, halted, pc, status_code, native_log, gen_log,
                 try_regions, code, lockVars, valueVars, parserVars, schedState>>

\* the host thread of worker k calls the native function it was started on
worker_call_cfunction(k) ==
  /\ k \in DOMAIN worker_threads
  /\ worker_state[k] = "running"
  /\ status_code = 0
  /\ LET m == call_cfunction([Machine EXCEPT !.stack = <<>>], worker_threads[k].cfunc,
                             worker_thread_id)
     IN /\ status_code' = m.status_code
        /\ halted' = m.halted
        /\ native_log' = m.native_log
        /\ pc' = IF m.status_code # 0 THEN "panic" ELSE pc
  /\ worker_state' = [worker_state EXCEPT ![k] = "called"]
  /\ NoAllocationVM
  /\ UNCHANGED <<uncaught_exception_handler, frames, catchstack, stack, ip, steps, gen_log,
                 try_regions, last_op, code, lockVars, valueVars, parserVars, task_queue, timers, tickers, paused_threads,
                 worker_threads, next_thread_id, next_timer_id, uid, now, enq_log,
                 run_log, timer_log, cleared, suspend_log, last_drain>>

NextVM ==
  \/ MainLoop
  \/ \E value \in {kNull, 101} : op_putvalue(value)
  \/ op_pop
  \/ \E body_offset \in {3} : op_putfunction(body_offset)
  \/ \E thread_policy \in {kThreadMain, kThreadWorker, kThreadBoth} :
       create_cfunction(thread_policy)
  \/ op_call
  \/ op_return
  \/ \E offset \in {2} : op_registercatchtable(offset)
  \/ op_popcatchtable
  \/ \E offset \in {2} : op_branch(offset)
  \/ op_throw
  \/ set_uncaught_exception_handler
  \/ \E cfunc \in {v \in Range(stack) : charly_is_ptr(v) /\ v # nullptr} :
       /\ cell[cfunc].type = kTypeCFunction
       /\ start_worker_thread(cfunc, <<>>, MainFunction)
  \/ \E k \in DOMAIN worker_threads : worker_call_cfunction(k)

SpecVM == InitSched /\ [][NextVM]_vars

\* VM::op_dup
op_dup ==
  /\ Executing
  /\ Len(stack) > 0
  /\ Executed(push_stack(Fetched(cell), stack[Len(stack)]), GC)

\* VM::op_putgenerator(symbol, resume_address): the generator takes the
\* current frame, which the call of the generator function created, and the
\* function of that frame
op_putgenerator(resume_offset) ==
  /\ Executing
  /\ frames # nullptr
  /\ LET g == allocate(GC)
         c == g.alloc_result
         m == Fetched(g.cell)
     IN Executed(push_stack([m EXCEPT
                               !.cell[c] = [MemoryCell(kTypeGenerator, nullptr) EXCEPT
                                              !.slots.context_frame = frames,
                                              !.slots.boot_function =
                                                 cell[frames].slots.caller_value,
                                              !.slots.context_catchtable = catchstack,
                                              !.members.resume_address = m.ip + resume_offset,
                                              !.members.context_stack = <<>>]],
                            c), g)

\* VM::op_yield, in the frame of a generator
op_yield ==
  /\ Executing
  /\ frames # nullptr
  /\ IsGenerator(cell, cell[frames].slots.caller_value)
  /\ Len(stack) > cell[frames].members.stacksize_at_entry
  /\ Executed([Yielded(Fetched(cell)) EXCEPT !.last_op = "yield"], GC)

\* number of values the body of a generator yields
MaxYields == 2

Instruction(op, arg) == [op |-> op, arg |-> arg]

\* the instructions of: const g = (func*() { yield 101; .. yield 100 + n })()
\* followed by the given number of calls g().  The main function is at
\* address 1, then the generator function, then the body of the generator
GeneratorProgram(n, calls) ==
  LET main_length == 3 + 3 * calls
      main == <<Instruction("PutFunction", main_length - 1), Instruction("Call", 0)>>
                \o Flatten([i \in 1 .. calls |->
                              <<Instruction("Dup", 0), Instruction("Call", 0),
                                Instruction("Pop", 0)>>])
                \o <<Instruction("Return", 0)>>
      boot == <<Instruction("PutGenerator", 1), Instruction("Return", 0)>>
      body == Flatten([i \in 1 .. n |->
                         <<Instruction("PutValue", 100 + i), Instruction("Yield", 0),
                           Instruction("Pop", 0)>>])
                \o <<Instruction("PutValue", kNull), Instruction("Return", 0)>>
  IN main \o boot \o body

\* the dispatch loop reads the given opcode at the instruction pointer
Instr(op) == ip \in DOMAIN code /\ code[ip].op = op

\* the runtime started on a program that creates a generator of n yields and
\* calls it n + 2 times
InitGen == InitRuntime /\ \E n \in 0 .. MaxYields : code = GeneratorProgram(n, n + 2)

NextGen ==
  \/ MainLoop
  \/ Instr("PutFunction") /\ op_putfunction(code[ip].arg)
  \/ Instr("PutGenerator") /\ op_putgenerator(code[ip].arg)
  \/ Instr("PutValue") /\ op_putvalue(code[ip].arg)
  \/ Instr("Dup") /\ op_dup
  \/ Instr("Pop") /\ op_pop
  \/ Instr("Call") /\ op_call
  \/ Instr("Yield") /\ op_yield
  \/ Instr("Return") /\ op_return
  \/ do_collect

SpecGen == InitGen /\ [][NextGen]_vars

(***************************************************************************)
(* The collector and its locks (src/vm/gc.cpp).  A host thread calls       *)
(* do_collect, collect or allocate; the call proceeds in steps between     *)
(* which the other thread runs.  A thread is at: collect (entering         *)
(* collect), roots (marking the roots of the VM), scan_tasks (copying and  *)
(* marking the task queue), scan_maps (marking timers, tickers and paused  *)
(* threads), scan_workers (marking the worker records), sweep (marking the *)
(* temporaries and sweeping), return (back in the function it called).     *)
(***************************************************************************)
\* a thread can lock the recursive mutex: it is free or the thread owns it
Acquirable(t) == g_mutex.owner \in {"none", t}

\* std::unique_lock<std::recursive_mutex> g_lock(g_mutex) by thread t
lock(m, t) == [owner |-> t, count |-> m.count + 1]

\* the destructor of g_lock
unlock(m) ==
  IF m.count = 1 THEN [owner |-> "none", count |-> 0] ELSE [m EXCEPT !.count = @ - 1]

\* the locks a thread holds without its last acquisition of the given one
Released(held, name) ==
  LET last == CHOOSE i \in DOMAIN held :
                held[i] = name /\ \A j \in DOMAIN held : held[j] = name => j <= i
  IN SubSeq(held, 1, last - 1) \o SubSeq(held, last + 1, Len(held))

\* allocate is about to run a collection: the cell it pops is the last one,
\* or few cells remain
NeedsCollect ==
  cell[free_cell].next = nullptr \/ remaining_free_cells <= min_free_cells

\* what a step of a thread inside the collector leaves alone
LockStepKeeps ==
  UNCHANGED <<schedVars, status_code, native_log, gen_log, try_regions, last_op, code,
              valueVars, parserVars>>

NoHeapChange == UNCHANGED <<gcVars, rootVars, alloc_result, collected, cleaned>>

\* GarbageCollector::do_collect, first line: g_lock is taken, collect called
thread_do_collect(t) ==
  /\ threads[t].pc = "idle"
  /\ steps < MaxSteps
  /\ Acquirable(t)
  /\ g_mutex' = lock(g_mutex, t)
  /\ threads' = [threads EXCEPT ![t] = [pc |-> "collect", via |-> "do_collect",
                                         held |-> Append(@.held, "g_mutex")]]
  /\ steps' = steps + 1
  /\ NoHeapChange /\ LockStepKeeps
  /\ UNCHANGED <<task_queue_m, worker_threads_m>>

\* GarbageCollector::collect called by the thread itself
thread_collect(t) ==
  /\ threads[t].pc = "idle"
  /\ steps < MaxSteps
  /\ threads' = [threads EXCEPT ![t] = [pc |-> "collect", via |-> "collect",
                                         held |-> @.held]]
  /\ steps' = steps + 1
  /\ NoHeapChange /\ LockStepKeeps
  /\ UNCHANGED <<g_mutex, task_queue_m, worker_threads_m>>

\* GarbageCollector::allocate, up to the test that decides on a collection:
\* g_lock is taken
thread_allocate(t) ==
  /\ threads[t].pc = "idle"
  /\ steps < MaxSteps
  /\ Acquirable(t)
  /\ g_mutex' = lock(g_mutex, t)
  /\ threads' = [threads EXCEPT ![t] = [pc |-> IF NeedsCollect THEN "collect" ELSE "return",
                                         via |-> "allocate",
                                         held |-> Append(@.held, "g_mutex")]]
  /\ steps' = steps + 1
  /\ NoHeapChange /\ LockStepKeeps
  /\ UNCHANGED <<task_queue_m, worker_threads_m>>

\* GarbageCollector::collect, first line: a temporary unique_lock locks
\* g_mutex and is destroyed at the end of the statement; the marking of the
\* roots begins
collect_lock(t) ==
  /\ threads[t].pc = "collect"
  /\ Acquirable(t)
  /\ threads' = [threads EXCEPT ![t].pc = "roots"]
  /\ NoHeapChange /\ LockStepKeeps
  /\ UNCHANGED <<g_mutex, task_queue_m, worker_threads_m, steps>>

\* collect: lock_guard on task_queue_m, the task queue is copied
collect_lock_task_queue(t) ==
  /\ threads[t].pc = "roots"
  /\ task_queue_m = "none"
  /\ task_queue_m' = t
  /\ threads' = [threads EXCEPT ![t].pc = "scan_tasks",
                                ![t].held = Append(@, "task_queue_m")]
  /\ NoHeapChange /\ LockStepKeeps
  /\ UNCHANGED <<g_mutex, worker_threads_m, steps>>

\* collect: the tasks are marked, the lock_guard ends, and the loops over
\* timers, tickers and paused_threads begin
collect_scan_task_queue(t) ==
  /\ threads[t].pc = "scan_tasks"
  /\ task_queue_m' = "none"
  /\ threads' = [threads EXCEPT ![t].pc = "scan_maps",
                                ![t].held = Released(@, "task_queue_m")]
  /\ NoHeapChange /\ LockStepKeeps
  /\ UNCHANGED <<g_mutex, worker_threads_m, steps>>

\* collect: lock_guard on worker_threads_m
collect_lock_worker_threads(t) ==
  /\ threads[t].pc = "scan_maps"
  /\ worker_threads_m = "none"
  /\ worker_threads_m' = t
  /\ threads' = [threads EXCEPT ![t].pc = "scan_workers",
                                ![t].held = Append(@, "worker_threads_m")]
  /\ NoHeapChange /\ LockStepKeeps
  /\ UNCHANGED <<g_mutex, task_queue_m, steps>>

\* collect: the worker records are marked and the lock_guard ends
collect_scan_worker_threads(t) ==
  /\ threads[t].pc = "scan_workers"
  /\ worker_threads_m' = "none"
  /\ threads' = [threads EXCEPT ![t].pc = "sweep",
                                ![t].held = Released(@, "worker_threads_m")]
  /\ NoHeapChange /\ LockStepKeeps
  /\ UNCHANGED <<g_mutex, task_queue_m, steps>>

\* collect: temporaries and sweep; every deallocate locks g_mutex with a
\* temporary.  The heap changes here, except inside allocate, whose changes
\* are made when it returns
collect_sweep(t) ==
  /\ threads[t].pc = "sweep"
  /\ Acquirable(t)
  /\ threads' = [threads EXCEPT ![t].pc = "return"]
  /\ IF threads[t].via = "allocate"
     THEN NoHeapChange
     ELSE LET g == collect(GC)
          IN /\ SetGC(g)
             /\ cell' = g.cell
             /\ pop_queue' = g.pop_queue
             /\ UNCHANGED <<temporaries, running, frames, catchstack,
                            uncaught_exception_handler, internal_error_class, globals,
                            primitive, stack, task_queue, timers, tickers,
                            paused_threads, worker_threads>>
  /\ LockStepKeeps
  /\ UNCHANGED <<g_mutex, task_queue_m, worker_threads_m, steps>>

\* the function the thread called returns: do_collect and allocate release
\* g_lock; allocate hands out the cell, which the thread makes a string
thread_return(t) ==
  /\ threads[t].pc = "return"
  /\ threads' = [threads EXCEPT ![t] = [pc |-> "idle", via |-> "none",
                                         held |-> IF threads[t].via = "collect"
                                                  THEN @.held
                                                  ELSE Released(@.held, "g_mutex")]]
  /\ g_mutex' = IF threads[t].via = "collect" THEN g_mutex ELSE unlock(g_mutex)
  /\ IF threads[t].via = "allocate"
     THEN LET g == allocate(GC)
          IN /\ g.heaps <= MaxHeaps
             /\ SetGC(g)
             /\ cell' = [g.cell EXCEPT ![g.alloc_result] = MemoryCell(kTypeString, nullptr)]
             /\ pop_queue' = g.pop_queue
             /\ UNCHANGED <<temporaries, running, frames, catchstack,
                            uncaught_exception_handler, internal_error_class, globals,
                            primitive, stack, task_queue, timers, tickers,
                            paused_threads, worker_threads>>
     ELSE NoHeapChange
  /\ LockStepKeeps
  /\ UNCHANGED <<task_queue_m, worker_threads_m, steps>>

NextLock ==
  \E t \in Threads :
    \/ thread_do_collect(t)
    \/ thread_collect(t)
    \/ thread_allocate(t)
    \/ collect_lock(t)
    \/ collect_lock_task_queue(t)
    \/ collect_scan_task_queue(t)
    \/ collect_lock_worker_threads(t)
    \/ collect_scan_worker_threads(t)
    \/ collect_sweep(t)
    \/ thread_return(t)

SpecLock == InitSched /\ [][NextLock]_vars

(***************************************************************************)
(* Values (value.h).  A VALUE, an int64_t and the bits of a double are     *)
(* 64-bit words.  A word is written as the sequence of its bits, bit 0     *)
(* first; the arithmetic works on words of any width.                      *)
(***************************************************************************)
\* F(x) and F(x, y), with the arguments evaluated once
Bind(x, F(_)) == CHOOSE r \in {F(v) : v \in {x}} : TRUE

Bind2(x, y, F(_, _)) == CHOOSE r \in {F(v, w) : v \in {x}, w \in {y}} : TRUE

\* bit i of a number below 2^16
BitOf(n, i) == (n \div (2 ^ i)) % 2

\* the 64-bit word with the 16-bit parts l3 l2 l1 l0, l3 the highest
Word(l3, l2, l1, l0) ==
  [i \in 1 .. 64 |->
     LET k == (i - 1) \div 16
         part == IF k = 0 THEN l0 ELSE IF k = 1 THEN l1 ELSE IF k = 2 THEN l2 ELSE l3
     IN BitOf(part, (i - 1) % 16)]

\* the operators & | ~ of C++
AND(a, b) == Bind2(a, b, LAMBDA v, w : [i \in 1 .. Len(v) |-> v[i] * w[i]])

OR(a, b) == Bind2(a, b, LAMBDA v, w : [i \in 1 .. Len(v) |-> IF v[i] + w[i] > 0 THEN 1 ELSE 0])

NOT(a) == Bind(a, LAMBDA v : [i \in 1 .. Len(v) |-> 1 - v[i]])

Zero(n) == [i \in 1 .. n |-> 0]

\* a two's complement word widened to n bits, and its low n bits
SignExtend(a, n) ==
  Bind(a, LAMBDA v : [i \in 1 .. n |-> IF i <= Len(v) THEN v[i] ELSE v[Len(v)]])

Low(a, n) == SubSeq(a, 1, n)

\* The arithmetic works on limbs of 15 bits, so that a product of two limbs
\* and two carries stays below 2^31.
\* the number made of the 15 bits of a word from bit 15 * k on
Limb(a, k) ==
  LET bit(j) == IF 15 * k + j + 1 <= Len(a) THEN a[15 * k + j + 1] ELSE 0
  IN bit(0) + 2 * bit(1) + 4 * bit(2) + 8 * bit(3) + 16 * bit(4) + 32 * bit(5) + 64 * bit(6)
     + 128 * bit(7) + 256 * bit(8) + 512 * bit(9) + 1024 * bit(10) + 2048 * bit(11)
     + 4096 * bit(12) + 8192 * bit(13) + 16384 * bit(14)

\* the limbs of a word, the lowest first, and the word of width w of limbs
Limbs(a) == Bind(a, LAMBDA v : [k \in 1 .. ((Len(v) + 14) \div 15) |-> Limb(v, k - 1)])

Bits(limbs, w) ==
  Bind(limbs, LAMBDA l : [i \in 1 .. w |-> BitOf(l[((i - 1) \div 15) + 1], (i - 1) % 15)])

\* the limbs k and up of a + b + carry and of a - b - borrow, for as many
\* limbs as a has
RECURSIVE AddLimbs(_, _, _, _)
AddLimbs(a, b, k, carry) ==
  IF k > Len(a) THEN <<>>
  ELSE LET s == a[k] + b[k] + carry
       IN <<s % 32768>> \o AddLimbs(a, b, k + 1, s \div 32768)

RECURSIVE SubLimbs(_, _, _, _)
SubLimbs(a, b, k, borrow) ==
  IF k > Len(a) THEN <<>>
  ELSE LET s == a[k] + 32768 - b[k] - borrow
       IN <<s % 32768>> \o SubLimbs(a, b, k + 1, 1 - (s \div 32768))

\* a < b for the limbs k and below
RECURSIVE LessLimbs(_, _, _)
LessLimbs(a, b, k) ==
  IF k = 0 THEN FALSE
  ELSE IF a[k] # b[k] THEN a[k] < b[k]
  ELSE LessLimbs(a, b, k - 1)

\* the limbs k and up of a * d + carry for one limb d, one limb more than a
RECURSIVE MulRow(_, _, _, _)
MulRow(a, d, k, carry) ==
  IF k > Len(a) THEN <<carry>>
  ELSE LET p == a[k] * d + carry
       IN <<p % 32768>> \o MulRow(a, d, k + 1, p \div 32768)

\* a times the limbs j and up of b
RECURSIVE MulLimbs(_, _, _)
MulLimbs(a, b, j) ==
  IF j > Len(b) THEN Zero(Len(a))
  ELSE Bind2(MulRow(a, b[j], 1, 0), MulLimbs(a, b, j + 1),
             LAMBDA row, rest :
               <<row[1]>> \o AddLimbs(rest, Tail(row) \o Zero(Len(rest) - Len(a)), 1, 0))

\* a + b + carry modulo 2^width, for words of one width
AddWithCarry(a, b, carry) ==
  Bind2(a, b, LAMBDA x, y :
          Bind2(Limbs(x), Limbs(y), LAMBDA v, w : Bits(AddLimbs(v, w, 1, carry), Len(x))))

ADD(a, b) == AddWithCarry(a, b, 0)

SUB(a, b) == AddWithCarry(a, NOT(b), 1)

ShiftLeft(a, k) == Bind(a, LAMBDA v : [i \in 1 .. Len(v) |-> IF i <= k THEN 0 ELSE v[i - k]])

\* a * b modulo 2^width, for words of one width
MUL(a, b) ==
  Bind2(a, b, LAMBDA x, y :
          Bind2(Limbs(x), Limbs(y), LAMBDA v, w : Bits(MulLimbs(v, w, 1), Len(x))))

\* a < b for unsigned and for two's complement words of one width
LessUnsigned(a, b) == Bind2(Limbs(a), Limbs(b), LAMBDA v, w : LessLimbs(v, w, Len(v)))

Less(a, b) ==
  Bind2(a, b, LAMBDA v, w : IF v[Len(v)] # w[Len(w)] THEN v[Len(v)] = 1 ELSE LessUnsigned(v, w))

\* masks and signatures of the VALUE type
kMaskSignBit == Word(\h8000, 0, 0, 0)

kMaskExponentBits == Word(\h7ff0, 0, 0, 0)

kMaskQuietBit == Word(\h0008, 0, 0, 0)

kMaskSignature == Word(\hffff, 0, 0, 0)

kITypeFalse == Word(\h0001, 0, 0, 0)

kITypeTrue == Word(\h0002, 0, 0, 0)

kITypeNull == Word(\h0003, 0, 0, 0)

kITypeInteger == Word(\h0004, 0, 0, 0)

kITypeSymbol == Word(\h0005, 0, 0, 0)

kITypePString == Word(\h0006, 0, 0, 0)

kITypeIString == Word(\h0007, 0, 0, 0)

kBitsNaN == OR(kMaskExponentBits, kMaskQuietBit)

kNaN == kBitsNaN

kFalse == OR(kBitsNaN, kITypeFalse)

kTrue == OR(kBitsNaN, kITypeTrue)

\* kNull of value.h, 0x7ffb000000000000; the models of the collector and of
\* the interpreter above write a null value as 0, like a null cell address
kNullValue == OR(kBitsNaN, kITypeNull)

kSignaturePointer == OR(kMaskSignBit, kBitsNaN)

kSignatureInteger == OR(kBitsNaN, kITypeInteger)

kSignatureSymbol == OR(kBitsNaN, kITypeSymbol)

kSignaturePString == OR(kBitsNaN, kITypePString)

kSignatureIString == OR(kBitsNaN, kITypeIString)

kMaskInteger == Word(0, \hffff, \hffff, \hffff)

kMaskIntegerSign == Word(0, \h8000, 0, 0)

kMaxInt == Word(0, \h7fff, \hffff, \hffff)

kMinInt == Word(\hffff, \h8000, 0, 0)

kSignBlock == Word(\hffff, 0, 0, 0)

\* charly_int_to_int64 with the bug of not extending the sign
charly_int_to_int64_unsigned(value) == AND(value, kMaskInteger)

\* charly_int_to_int64: the payload, sign-extended from bit 47
charly_int_to_int64(value) ==
  OR(AND(value, kMaskInteger),
     IF AND(value, kMaskIntegerSign) # Zero(64) THEN kSignBlock ELSE Zero(64))

\* charly_create_integer<int64_t>
charly_create_integer(value) == OR(kSignatureInteger, AND(value, kMaskInteger))

\* charly_create_double, on the bits of the double
charly_create_double(bits) ==
  IF AND(bits, kMaskExponentBits) = kMaskExponentBits THEN kBitsNaN ELSE bits

\* charly_double_to_double: BITCAST_DOUBLE, the bits of the double returned
charly_double_to_double(value) == value

charly_is_nan(value) == value = kNaN

charly_is_float(value) ==
  charly_is_nan(value) \/ AND(NOT(value), kMaskExponentBits) # Zero(64)

(***************************************************************************)
(* The arithmetic of double (IEEE 754 binary64, round to nearest even) on  *)
(* the bits of the doubles.  A finite double is significand * 2^scale with *)
(* a significand of 53 bits.                                               *)
(***************************************************************************)
\* the bits of m * 2^k in a word of width w; bits beyond the word are lost
Shifted(m, k, w) ==
  Bind2(m, k, LAMBDA v, s : [i \in 1 .. w |-> IF (i - s) \in 1 .. Len(v) THEN v[i - s] ELSE 0])

\* the highest set bit of a word, counted from 1, 0 if none: the highest set
\* bit of the limb k of the limbs l or of a limb below
RECURSIVE HighBitFrom(_, _)
HighBitFrom(l, k) ==
  IF k = 0 THEN 0
  ELSE IF l[k] = 0 THEN HighBitFrom(l, k - 1)
  ELSE 15 * (k - 1) + CHOOSE h \in 1 .. 15 : 2 ^ (h - 1) <= l[k] /\ l[k] < 2 ^ h

HighBit(m) == Bind(Limbs(m), LAMBDA l : HighBitFrom(l, Len(l)))

\* 2 * r + bit for limbs r; the bit shifted out at the top is lost
Doubled(r, bit) ==
  [k \in 1 .. Len(r) |-> ((2 * r[k]) % 32768) + (IF k = 1 THEN bit ELSE r[k - 1] \div 16384)]

\* long division of the unsigned word n by the limbs d # 0, for the bits hi
\* down to lo of n and the remainder r so far: the quotient bits, the highest
\* first, and the remainder; r and d have as many limbs
RECURSIVE DivFrom(_, _, _, _, _)
DivFrom(n, d, hi, lo, r) ==
  IF hi = lo
    THEN Bind(Doubled(r, n[hi]),
              LAMBDA r2 : IF LessLimbs(r2, d, Len(d)) THEN [q |-> <<0>>, r |-> r2]
                          ELSE [q |-> <<1>>, r |-> SubLimbs(r2, d, 1, 0)])
    ELSE Bind(DivFrom(n, d, hi, ((lo + hi) \div 2) + 1, r),
              LAMBDA high :
                Bind(DivFrom(n, d, (lo + hi) \div 2, lo, high.r),
                     LAMBDA low : [q |-> high.q \o low.q, r |-> low.r]))

Exponent(bits) ==
  bits[53] + 2 * bits[54] + 4 * bits[55] + 8 * bits[56] + 16 * bits[57] + 32 * bits[58]
  + 64 * bits[59] + 128 * bits[60] + 256 * bits[61] + 512 * bits[62] + 1024 * bits[63]

Mantissa(bits) == SubSeq(bits, 1, 52)

IsNaN(bits) == Exponent(bits) = 2047 /\ Mantissa(bits) # Zero(52)

IsInfinity(bits) == Exponent(bits) = 2047 /\ Mantissa(bits) = Zero(52)

IsZero(bits) == Exponent(bits) = 0 /\ Mantissa(bits) = Zero(52)

Infinity(sign) == Zero(52) \o <<1, 1, 1, 1, 1, 1, 1, 1, 1, 1, 1, sign>>

SignedZero(sign) == Zero(63) \o <<sign>>

\* the NaN an operation of the machine makes
MadeNaN == Word(\h7ff8, 0, 0, 0)

Negated(bits) == SubSeq(bits, 1, 63) \o <<1 - bits[64]>>

Significand(bits) == Mantissa(bits) \o <<IF Exponent(bits) = 0 THEN 0 ELSE 1>>

Scale(bits) == IF Exponent(bits) = 0 THEN -1074 ELSE Exponent(bits) - 1075

\* the double nearest to m * 2^e, ties to even, for a word m # 0; sticky says
\* that the exact value is a little above m * 2^e
RoundedTo(sign, m, h, e, sticky) ==
  LET normal == e + h - 1 >= -1022
      drop == IF normal THEN h - 53 ELSE -1074 - e
      kept == Shifted(m, -drop, 53)
      round == drop \in 1 .. Len(m) /\ m[drop] = 1
      rest == sticky \/ \E i \in 1 .. Len(m) : i < drop /\ m[i] = 1
      up == round /\ (rest \/ kept[1] = 1)
      biased == IF normal THEN e + h - 1 + 1023 ELSE 0
  IN IF biased >= 2047 THEN Infinity(sign)
     ELSE LET word == SubSeq(kept, 1, 52) \o [i \in 1 .. 11 |-> BitOf(biased, i - 1)] \o <<0>>
              rounded == IF up THEN ADD(word, Word(0, 0, 0, 1)) ELSE word
          IN SubSeq(rounded, 1, 63) \o <<sign>>

RoundToDouble(sign, m, e, sticky) ==
  Bind2(m, e, LAMBDA v, s : Bind(HighBit(v), LAMBDA h : RoundedTo(sign, v, h, s, sticky)))

\* the conversion of an int64_t to double
Int64ToDouble(value) ==
  IF value = Zero(64) THEN Zero(64)
  ELSE RoundToDouble(value[64], IF value[64] = 1 THEN SUB(Zero(64), value) ELSE value, 0,
                     FALSE)

\* x + y
DoubleAdd(x, y) ==
  IF IsNaN(x) \/ IsNaN(y) \/ (IsInfinity(x) /\ IsInfinity(y) /\ x[64] # y[64]) THEN MadeNaN
  ELSE IF IsInfinity(x) THEN x
  ELSE IF IsInfinity(y) THEN y
  ELSE IF IsZero(x) /\ IsZero(y) THEN SignedZero(IF x[64] = y[64] THEN x[64] ELSE 0)
  ELSE IF IsZero(x) THEN y
  ELSE IF IsZero(y) THEN x
  ELSE LET hi == IF Scale(x) >= Scale(y) THEN x ELSE y
           lo == IF Scale(x) >= Scale(y) THEN y ELSE x
           far == Scale(hi) - Scale(lo) > 56
           \* a term far below the other one acts as a sticky bit
           e == IF far THEN Scale(hi) - 4 ELSE Scale(lo)
           a == Shifted(Significand(hi), Scale(hi) - e, 112)
           b == IF far THEN Shifted(<<1>>, 0, 112) ELSE Shifted(Significand(lo), 0, 112)
       IN IF hi[64] = lo[64] THEN RoundToDouble(hi[64], ADD(a, b), e, FALSE)
          ELSE IF a = b THEN SignedZero(0)
          ELSE IF LessUnsigned(b, a) THEN RoundToDouble(hi[64], SUB(a, b), e, FALSE)
          ELSE RoundToDouble(lo[64], SUB(b, a), e, FALSE)

\* x - y
DoubleSub(x, y) == IF IsNaN(y) THEN MadeNaN ELSE DoubleAdd(x, Negated(y))

\* x * y
DoubleMul(x, y) ==
  LET sign == (x[64] + y[64]) % 2
  IN IF IsNaN(x) \/ IsNaN(y) \/ (IsInfinity(x) /\ IsZero(y)) \/ (IsZero(x) /\ IsInfinity(y))
       THEN MadeNaN
     ELSE IF IsInfinity(x) \/ IsInfinity(y) THEN Infinity(sign)
     ELSE IF IsZero(x) \/ IsZero(y) THEN SignedZero(sign)
     ELSE RoundToDouble(sign,
                        MUL(Shifted(Significand(x), 0, 107), Shifted(Significand(y), 0, 107)),
                        Scale(x) + Scale(y), FALSE)

\* x / y
DoubleDiv(x, y) ==
  LET sign == (x[64] + y[64]) % 2
  IN IF IsNaN(x) \/ IsNaN(y) \/ (IsInfinity(x) /\ IsInfinity(y)) \/ (IsZero(x) /\ IsZero(y))
       THEN MadeNaN
     ELSE IF IsInfinity(x) \/ IsZero(y) THEN Infinity(sign)
     ELSE IF IsInfinity(y) \/ IsZero(x) THEN SignedZero(sign)
     ELSE Bind2(Shifted(Significand(x), 109 - HighBit(Significand(x)), 109),
                Limbs(Shifted(Significand(y), 0, 54)),
                LAMBDA n, d :
                  Bind(DivFrom(n, d, 109, 1, Zero(Len(d))),
                       LAMBDA division :
                         RoundToDouble(sign, [i \in 1 .. 109 |-> division.q[110 - i]],
                                       Scale(x) - Scale(y) - (109 - HighBit(Significand(x))),
                                       division.r # Zero(Len(d)))))

\* x <= y
DoubleLessEq(x, y) ==
  IF IsNaN(x) \/ IsNaN(y) THEN FALSE
  ELSE IF IsZero(x) /\ IsZero(y) THEN TRUE
  ELSE IF x[64] # y[64] THEN x[64] = 1
  ELSE IF x[64] = 0 THEN ~LessUnsigned(y, x)
  ELSE ~LessUnsigned(x, y)

\* modf(value, &intpart) == 0.0: the double has no fractional part
NoFraction(value) ==
  IF IsNaN(value) THEN FALSE
  ELSE IF IsInfinity(value) \/ IsZero(value) THEN TRUE
  ELSE Bind2(Significand(value), Scale(value),
             LAMBDA m, e : \A i \in 1 .. 53 : i <= -e => m[i] = 0)

\* (int64_t)value for a double without fractional part within int64_t
DoubleToInt64(value) ==
  LET magnitude == Shifted(Significand(value), Scale(value), 64)
  IN IF value[64] = 1 THEN SUB(Zero(64), magnitude) ELSE magnitude

charly_is_pstring(value) == AND(value, kMaskSignature) = kSignaturePString

charly_is_istring(value) == AND(value, kMaskSignature) = kSignatureIString

charly_is_immediate_string(value) == charly_is_istring(value) \/ charly_is_pstring(value)

\* The bytes of a VALUE in memory.  The byte at offset i of &value is the
\* byte of significance i on a little endian machine and of significance
\* 7 - i on a big endian one.
Significance(i, big_endian) == IF big_endian THEN 7 - i ELSE i

\* *(reinterpret_cast<uint8_t*>(&value) + i)
LoadByte(value, i, big_endian) ==
  LET k == Significance(i, big_endian)
  IN value[8 * k + 1] + 2 * value[8 * k + 2] + 4 * value[8 * k + 3] + 8 * value[8 * k + 4]
     + 16 * value[8 * k + 5] + 32 * value[8 * k + 6] + 64 * value[8 * k + 7]
     + 128 * value[8 * k + 8]

\* buf[at] = bytes[1]; buf[at + 1] = bytes[2]; ... on char* buf = (char*)&value
StoreBytes(value, at, bytes, big_endian) ==
  Bind2(value, bytes,
        LAMBDA v, b : [n \in 1 .. 64 |->
                         LET i == Significance((n - 1) \div 8, big_endian)
                         IN IF i \in at .. (at + Len(b) - 1)
                              THEN BitOf(b[i - at + 1], (n - 1) % 8)
                              ELSE v[n]])

\* pointers into the bytes of a VALUE, and the null pointer
AddressIn(offset) == [base |-> "&value", offset |-> offset]

NullPointer == [base |-> "nullptr", offset |-> 0]

\* the length bytes of the buffer at a pointer into the value
ReadBuffer(value, pointer, length, big_endian) ==
  [i \in 1 .. length |-> LoadByte(value, pointer.offset + i - 1, big_endian)]

\* the store of the length byte left out
charly_create_istring_without_length(ptr, length, big_endian) ==
  IF length = 6
    THEN StoreBytes(kSignaturePString, IF big_endian THEN 2 ELSE 0, SubSeq(ptr, 1, 6),
                    big_endian)
    ELSE IF length <= 5
      THEN StoreBytes(kSignatureIString, IF big_endian THEN 3 ELSE 0, SubSeq(ptr, 1, length),
                      big_endian)
      ELSE kNullValue

\* charly_create_istring(const char* ptr, uint8_t length): ptr is the buffer
\* it points to
charly_create_istring(ptr, length, big_endian) ==
  IF length = 6
    THEN StoreBytes(kSignaturePString, IF big_endian THEN 2 ELSE 0, SubSeq(ptr, 1, 6),
                    big_endian)
    ELSE IF length <= 5
      THEN LET copied == StoreBytes(kSignatureIString, IF big_endian THEN 3 ELSE 0,
                                    SubSeq(ptr, 1, length), big_endian)
           IN StoreBytes(copied, IF big_endian THEN 2 ELSE 5, <<length>>, big_endian)
      ELSE kNullValue

\* charly_string_data of a value that is not on the heap
charly_string_data(value, big_endian) ==
  IF ~big_endian
    THEN AddressIn(0)
    ELSE IF charly_is_pstring(value)
      THEN AddressIn(2)
      ELSE IF charly_is_istring(value) THEN AddressIn(3) ELSE NullPointer

\* charly_string_length of a value that is not on the heap; -1 is the
\* uint32_t 0xFFFFFFFF
charly_string_length(value, big_endian) ==
  IF charly_is_pstring(value)
    THEN 6
    ELSE IF charly_is_istring(value)
      THEN LoadByte(value, IF big_endian THEN 2 ELSE 5, big_endian)
      ELSE -1

kTypeNumber == "number"

kTypeBoolean == "boolean"

kTypeNull == "null"

kTypeSymbol == "symbol"

kTypeUnknown == "unknown"

charly_is_false(value) == value = kFalse

charly_is_true(value) == value = kTrue

charly_is_boolean(value) == charly_is_false(value) \/ charly_is_true(value)

charly_is_null(value) == value = kNullValue

charly_is_int(value) == AND(value, kMaskSignature) = kSignatureInteger

charly_is_symbol(value) == AND(value, kMaskSignature) = kSignatureSymbol

\* charly_is_on_heap, that is charly_is_ptr, on the bits of the value
charly_is_on_heap(value) == AND(value, kMaskSignature) = kSignaturePointer

\* charly_as_basic: the cell at the address in the payload; the addresses of
\* the cells are their numbers
charly_as_basic(value) == cell[LoadByte(value, 0, FALSE)]

charly_is_heap_type(value, type) ==
  charly_is_on_heap(value) /\ charly_as_basic(value).type = type

charly_is_hstring(value) == charly_is_heap_type(value, kTypeString)

charly_is_string(value) ==
  charly_is_istring(value) \/ charly_is_pstring(value) \/ charly_is_hstring(value)

charly_get_type(value) ==
  IF charly_is_on_heap(value) THEN charly_as_basic(value).type
  ELSE IF charly_is_float(value) THEN kTypeNumber
  ELSE IF charly_is_int(value) THEN kTypeNumber
  ELSE IF charly_is_null(value) THEN kTypeNull
  ELSE IF charly_is_pstring(value) \/ charly_is_istring(value) THEN kTypeString
  ELSE IF charly_is_boolean(value) THEN kTypeBoolean
  ELSE IF charly_is_symbol(value) THEN kTypeSymbol
  ELSE kTypeUnknown

\* the values of the calls: words of every signature, doubles of both signs,
\* words with all exponent bits set and none of the signatures, with small
\* payloads; a pointer points to a cell of the heap
ValueArguments ==
  {value \in {Word(l3, 0, 0, l0) :
                 l3 \in {0, \h3ff0, \h8000, \hbff8, \h7ff0, \h7ff4, \h7ff8, \h7ff9, \h7ffa,
                         \h7ffb, \h7ffc, \h7ffd, \h7ffe, \h7fff, \hfff0, \hfff8, \hfff9,
                         \hffff},
                 l0 \in 0 .. 3} :
     charly_is_on_heap(value) => LoadByte(value, 0, FALSE) \in DOMAIN cell}

\* the buffers the calls point to: 7 bytes, with NUL bytes, ASCII bytes and
\* bytes with the high bit set
Buffers ==
  {<<a, b, \h62, a, \h80, b, \h7f>> : a \in {0, \h61, \hff}, b \in {0, \h61, \hff}}

\* the double arguments of the calls, by their bits: zeros, subnormals, 1.0,
\* -1.5, the largest finite doubles, the infinities, quiet and signalling NaNs
\* of both signs with and without payload
DoubleArguments ==
  {Word(l3, l2, 0, l0) : l3 \in {0, \h8000, \h3ff0, \hbff8, \h7fef, \hffef, \h7ff0, \hfff0,
                                 \h7ff8, \hfff8, \h7ffc},
                         l2 \in {0, \hffff},
                         l0 \in {0, 1}}

\* the int64_t arguments of the calls: every combination of these 16-bit
\* parts, which gives the values around 0, kMaxInt, kMinInt and the ends of
\* int64_t
Int64Arguments ==
  {Word(l3, l2, l1, l0) : l3 \in {0, 1, \h7fff, \h8000, \hffff},
                          l2 \in {0, \h7fff, \h8000, \hffff},
                          l1 \in {0, \hffff},
                          l0 \in {0, 1, \hffff}}

\* a call of a value function: the VM and the collector are not involved
Called(name, arguments, result) ==
  /\ fn' = name
  /\ fn_args' = arguments
  /\ fn_result' = result
  /\ UNCHANGED <<gcVars, rootVars, obsVars, schedVars, status_code, native_log, gen_log,
                 try_regions, last_op, code, lockVars, parserVars>>

call_create_integer(value) ==
  Called("charly_create_integer", <<value>>, charly_create_integer(value))

call_create_double(bits) ==
  Called("charly_create_double", <<bits>>, charly_create_double(bits))

call_create_istring(ptr, length, big_endian) ==
  Called("charly_create_istring", <<ptr, length, big_endian>>,
         charly_create_istring(ptr, length, big_endian))

call_get_type(value) ==
  Called("charly_get_type", <<value>>, charly_get_type(value))

NextValue ==
  \/ \E value \in Int64Arguments : call_create_integer(value)
  \/ \E bits \in DoubleArguments : call_create_double(bits)
  \/ \E value \in ValueArguments : call_get_type(value)
  \/ \E ptr \in Buffers, big_endian \in BOOLEAN :
       \E length \in 0 .. Len(ptr) : call_create_istring(ptr, length, big_endian)

SpecValue == InitSched /\ [][NextValue]_vars

(***************************************************************************)
(* The arithmetic of the numbers (value.h).                                *)
(***************************************************************************)
charly_number_to_double(value) ==
  IF charly_is_float(value) THEN charly_double_to_double(value)
  ELSE Bind(charly_int_to_int64(value), Int64ToDouble)

\* both tests of the range strict the wrong way round: the ends are kept
charly_create_number_int64_closed(value) ==
  IF Less(kMaxInt, value) \/ Less(value, kMinInt)
    THEN Bind(Int64ToDouble(value), charly_create_double)
    ELSE charly_create_integer(value)

\* charly_create_number(int64_t value)
charly_create_number_int64(value) ==
  IF ~Less(value, kMaxInt) \/ ~Less(kMinInt, value)
    THEN Bind(Int64ToDouble(value), charly_create_double)
    ELSE charly_create_integer(value)

\* every number made a double
charly_create_number_double_only(value) == charly_create_double(value)

\* charly_create_number(double value)
charly_create_number_double(value) ==
  IF /\ NoFraction(value)
     /\ Bind2(value, Int64ToDouble(kMaxInt), DoubleLessEq)
     /\ Bind2(Int64ToDouble(kMinInt), value, DoubleLessEq)
    THEN Bind(DoubleToInt64(value), charly_create_integer)
    ELSE charly_create_double(value)

\* a call that does not return
Trapped == <<>>

\* a * b on int64_t.  A product that does not fit is undefined behaviour: the
\* build wraps it to 64 bits or, with overflow checks compiled in, traps.
Int64Mul(a, b) ==
  Bind(MUL(SignExtend(a, 128), SignExtend(b, 128)),
       LAMBDA exact : IF SignExtend(Low(exact, 64), 128) = exact THEN {Low(exact, 64)}
                      ELSE {Low(exact, 64), Trapped})

charly_add_number(left, right) ==
  IF charly_is_int(left) /\ charly_is_int(right)
    THEN Bind(Bind2(charly_int_to_int64(left), charly_int_to_int64(right), ADD),
              charly_create_number_int64)
    ELSE Bind(Bind2(charly_number_to_double(left), charly_number_to_double(right), DoubleAdd),
              charly_create_number_double)

charly_sub_number(left, right) ==
  IF charly_is_int(left) /\ charly_is_int(right)
    THEN Bind(Bind2(charly_int_to_int64(left), charly_int_to_int64(right), SUB),
              charly_create_number_int64)
    ELSE Bind(Bind2(charly_number_to_double(left), charly_number_to_double(right), DoubleSub),
              charly_create_number_double)

\* the values charly_mul_number can return
charly_mul_number(left, right) ==
  IF charly_is_int(left) /\ charly_is_int(right)
    THEN {IF product = Trapped THEN Trapped ELSE charly_create_number_int64(product) :
            product \in Bind2(charly_int_to_int64(left), charly_int_to_int64(right), Int64Mul)}
    ELSE {Bind(Bind2(charly_number_to_double(left), charly_number_to_double(right), DoubleMul),
               charly_create_number_double)}

charly_div_number(left, right) ==
  Bind(Bind2(charly_number_to_double(left), charly_number_to_double(right), DoubleDiv),
       charly_create_number_double)

\* the operands of the calls: immediate integers at and around the ends of
\* their range and doubles
AddArguments ==
  {charly_create_integer(Zero(64)), charly_create_integer(Word(0, 0, 0, 1)),
   charly_create_integer(Word(\hffff, \hffff, \hffff, \hffff)), charly_create_integer(kMaxInt),
   charly_create_integer(kMinInt), Word(\h3fe0, 0, 0, 0)}

MulArguments ==
  {charly_create_integer(Word(\hffff, \hffff, \hffff, \hffff)),
   charly_create_integer(Word(0, 0, 0, 2)), charly_create_integer(Word(0, 0, \h8000, 1)),
   charly_create_integer(Word(0, 1, 0, 0)), charly_create_integer(kMaxInt),
   charly_create_integer(kMinInt), Word(\h3ff8, 0, 0, 0)}

DivArguments ==
  {charly_create_integer(Zero(64)), charly_create_integer(Word(0, 0, 0, 1)),
   charly_create_integer(Word(0, 0, 0, 2)), charly_create_integer(Word(0, 0, 0, 3)),
   charly_create_integer(Word(0, 0, 0, 4)),
   charly_create_integer(Word(\hffff, \hffff, \hffff, \hffff)), charly_create_integer(kMaxInt),
   charly_create_integer(kMinInt), Word(\h3fe0, 0, 0, 0)}

call_add_number(left, right) ==
  Called("charly_add_number", <<left, right>>, charly_add_number(left, right))

call_sub_number(left, right) ==
  Called("charly_sub_number", <<left, right>>, charly_sub_number(left, right))

call_mul_number(left, right) ==
  \E result \in charly_mul_number(left, right) :
    Called("charly_mul_number", <<left, right>>, result)

call_div_number(left, right) ==
  Called("charly_div_number", <<left, right>>, charly_div_number(left, right))

NextNumber ==
  \/ \E left \in AddArguments, right \in AddArguments : call_add_number(left, right)
  \/ \E left \in AddArguments, right \in AddArguments : call_sub_number(left, right)
  \/ \E left \in MulArguments, right \in MulArguments : call_mul_number(left, right)
  \/ \E left \in DivArguments, right \in DivArguments : call_div_number(left, right)

SpecNumber == InitSched /\ [][NextNumber]_vars

(***************************************************************************)
(* Unary not and truthyness (value.h)                                      *)
(***************************************************************************)
\* charly_int_to_int8: int64_t narrowed to int8_t, the low 8 bits
charly_int_to_int8(value) == Low(charly_int_to_int64(value), 8)

\* x == 0.0 is true for +0 and -0 and false for NaN
charly_unot_number(value) ==
  IF charly_is_int(value)
    THEN (IF charly_int_to_int8(value) = Zero(8) THEN kTrue ELSE kFalse)
    ELSE (IF IsZero(charly_double_to_double(value)) THEN kTrue ELSE kFalse)

charly_is_generator(value) == charly_is_heap_type(value, kTypeGenerator)

\* charly_truthyness of a value of value.h; Generator::finished() is basic.f1
charly_truthyness_value(value) ==
  IF value = kNaN THEN FALSE
  ELSE IF value = kNullValue THEN FALSE
  ELSE IF value = kFalse THEN FALSE
  ELSE IF charly_is_int(value) THEN charly_int_to_int64(value) # Zero(64)
  ELSE IF charly_is_float(value) THEN ~IsZero(charly_double_to_double(value))
  ELSE IF charly_is_generator(value) THEN ~charly_as_basic(value).f1
  ELSE TRUE

\* the operands: the values of every kind and the integers 256, 65536 and
\* -256, whose low 8 bits are zero
UnaryArguments ==
  ValueArguments \cup {charly_create_integer(Word(0, 0, 0, \h0100)),
                       charly_create_integer(Word(0, 0, 1, 0)),
                       charly_create_integer(Word(\hffff, \hffff, \hffff, \hff00))}

call_unot_number(value) ==
  /\ charly_is_int(value) \/ charly_is_float(value)
  /\ Called("charly_unot_number", <<value>>, charly_unot_number(value))

call_truthyness(value) ==
  Called("charly_truthyness", <<value>>, charly_truthyness_value(value))

NextUnary ==
  \/ Allocate("paused", kTypeGenerator, 1)
  \/ \E c0 \in LiveCells : Finish(c0)
  \/ \E value \in UnaryArguments : call_unot_number(value)
  \/ \E value \in UnaryArguments : call_truthyness(value)

SpecUnary == InitSched /\ [][NextUnary]_vars

(***************************************************************************)
(* Method lookup (value.h).  A class is a record of its prototype and its  *)
(* parent class; a prototype is a value that is an object or not, and the  *)
(* container of the object is a set of pairs of a symbol and a value.      *)
(* std::optional<VALUE> is a sequence of at most one value.                *)
(***************************************************************************)
MaxClasses == 3    \* classes of a class table

nullopt == <<>>

charly_is_object(value) == value.is_object

\* container->count(symbol)
count(container, symbol) == \E entry \in container : entry[1] = symbol

\* container->operator[](symbol) for a symbol the container holds
At(container, symbol) == (CHOOSE entry \in container : entry[1] = symbol)[2]

RECURSIVE charly_find_prototype_value(_, _, _)

charly_find_prototype_value(classes, klass, symbol) ==
  IF charly_is_object(classes[klass].prototype)
    THEN IF count(classes[klass].prototype.container, symbol)
           THEN <<At(classes[klass].prototype.container, symbol)>>
         ELSE IF classes[klass].parent_class # kNull
           THEN charly_find_prototype_value(classes, classes[klass].parent_class, symbol)
         ELSE nullopt
    ELSE nullopt

\* value_or(kNull)
charly_find_super_method(classes, base, symbol) ==
  IF classes[base].parent_class = kNull THEN kNull
  ELSE LET found == charly_find_prototype_value(classes, classes[base].parent_class, symbol)
       IN IF found = nullopt THEN kNull ELSE found[1]

\* the prototypes of class k: a value that is no object, a prototype object
\* without the symbol "foo", one with it; the values tell the classes apart
Prototypes(k) ==
  {[container |-> {}, is_object |-> FALSE],
   [container |-> {<<"bar", 10 * k>>}, is_object |-> TRUE],
   [container |-> {<<"foo", 10 * k + 1>>, <<"bar", 10 * k>>}, is_object |-> TRUE]}

\* the class tables: the parent of a class is an older class or none, so
\* that no chain of parents has a cycle
ClassTables ==
  {classes \in [1 .. MaxClasses -> [prototype : UNION {Prototypes(k) : k \in 1 .. MaxClasses},
                                     parent_class : 0 .. MaxClasses - 1]] :
     \A k \in 1 .. MaxClasses :
       /\ classes[k].prototype \in Prototypes(k)
       /\ classes[k].parent_class \in {kNull, k - 1}}

call_find_prototype_value(classes, klass, symbol) ==
  Called("charly_find_prototype_value", <<classes, klass, symbol>>,
         charly_find_prototype_value(classes, klass, symbol))

call_find_super_method(classes, base, symbol) ==
  Called("charly_find_super_method", <<classes, base, symbol>>,
         charly_find_super_method(classes, base, symbol))

NextLookup ==
  \/ \E classes \in ClassTables, klass \in 1 .. MaxClasses :
       call_find_prototype_value(classes, klass, "foo")
  \/ \E classes \in ClassTables, base \in 1 .. MaxClasses :
       call_find_super_method(classes, base, "foo")

SpecLookup == InitSched /\ [][NextLookup]_vars

(***************************************************************************)
(* The arguments of a call (VM::call_function, include/vm.h).  A Function  *)
(* is the record of its argc, minimum_argc and needs_arguments flag.        *)
(***************************************************************************)
MaxArgc == 2       \* declared parameters of a function
MaxArgv == 3       \* arguments passed at a call

Functions ==
  {f \in [argc : 0 .. MaxArgc, minimum_argc : 0 .. MaxArgc, needs_arguments : BOOLEAN] :
     f.minimum_argc <= f.argc}

\* the arguments of a call: values that tell the positions apart or not
ArgumentLists == UNION {[1 .. n -> 1 .. MaxArgv] : n \in 0 .. MaxArgv}

\* the new frame: whether the call threw instead, the declared parameters,
\* the contents of the arguments array
Frame(thrown, parameters, arguments) == <<thrown, parameters, arguments>>

Thrown(frame) == frame[1]

Parameters(frame) == frame[2]

Arguments(frame) == frame[3]

\* the frame of a call whose arguments array holds the declared parameters only
frame_of_call_declared_only(function, argv) ==
  Frame(Len(argv) < function.minimum_argc,
        [i \in 1 .. function.argc |-> IF i <= Len(argv) THEN argv[i] ELSE kNull],
        IF function.needs_arguments /\ Len(argv) >= function.minimum_argc
          THEN SubSeq(argv, 1, IF Len(argv) < function.argc THEN Len(argv) ELSE function.argc)
          ELSE <<>>)

\* the frame VM::call_function pushes: too few arguments throw; otherwise the
\* declared parameters are initialised from the arguments in call order, the
\* missing ones are null, and with needs_arguments the frame holds an array
\* of all the arguments of the call
frame_of_call(function, argv) ==
  IF Len(argv) < function.minimum_argc
    THEN Frame(TRUE, <<>>, <<>>)
    ELSE Frame(FALSE,
               [i \in 1 .. function.argc |-> IF i <= Len(argv) THEN argv[i] ELSE kNull],
               IF function.needs_arguments THEN argv ELSE <<>>)

\* the identifier $n reads element n of the arguments array
QuickAccess(frame, n) == Arguments(frame)[n + 1]

call_function_with(function, argv) ==
  Called("call_function", <<function, argv>>, frame_of_call(function, argv))

NextCall == \E function \in Functions, argv \in ArgumentLists : call_function_with(function, argv)

SpecCall == InitSched /\ [][NextCall]_vars

(***************************************************************************)
(* Immediate strings from a pointer and a length and from a std::string    *)
(* (value.h)                                                               *)
(***************************************************************************)
\* a value converted to uint8_t
Uint8(n) == n % 256

\* a std::string of n bytes
StdString(n) == [i \in 1 .. n |-> 97 + (i % 26)]

\* the sizes of the strings: around 6, and around the sizes whose low 8 bits
\* are 0 and 6
StringSizes == {0, 5, 6, 7, 8, 255, 256, 257, 261, 262, 263, 512}

\* charly_create_istring(const std::string& input): input.size() is passed
\* as the uint8_t length
charly_create_istring_string(input, big_endian) ==
  charly_create_istring(input, Uint8(Len(input)), big_endian)

call_create_istring_string(input, big_endian) ==
  Called("charly_create_istring(std::string)", <<input, big_endian>>,
         charly_create_istring_string(input, big_endian))

NextString ==
  \/ \E ptr \in Buffers \cup {StdString(255)}, big_endian \in BOOLEAN :
       \E length \in {n \in (0 .. 8) \cup {255} : n <= Len(ptr)} :
         call_create_istring(ptr, length, big_endian)
  \/ \E n \in StringSizes, big_endian \in BOOLEAN :
       call_create_istring_string(StdString(n), big_endian)

SpecString == InitSched /\ [][NextString]_vars

(***************************************************************************)
(* Calling a native function (value.h)                                     *)
(***************************************************************************)
\* the highest case of the switch over cfunc->argc
kCFunctionMaxArgc == 20

\* the argument counts: around 0 and around the highest case of the switch
ArgcValues == {0, 1, 2, 19, 20, 21, 22}

\* a CFunction: the members charly_call_cfunction reads
CFunction(pointer, argc) == <<pointer, argc>>

Pointer(cfunc) == cfunc[1]

Argc(cfunc) == cfunc[2]

\* the native functions: one returns its last argument, one returns null
Natives == {"last", "null"}

CFunctions == {CFunction(pointer, argc) : pointer \in Natives, argc \in ArgcValues}

\* the arrays of argc values a call supplies
Argv(argc, first) == [i \in 1 .. argc |-> first + i]

\* the native function behind the pointer, called with the given arguments
Invoke(pointer, arguments) ==
  IF pointer = "last" /\ arguments # <<>> THEN arguments[Len(arguments)] ELSE kNull

\* what a call of charly_call_cfunction did: the value it returned and the
\* invocations of native functions it made, each with the arguments passed
Outcome(returned, invocations) == <<returned, invocations>>

ReturnValue(outcome) == outcome[1]

Invocations(outcome) == outcome[2]

\* charly_call_cfunction that passes the whole of argv to the native function
charly_call_cfunction_whole_argv(cfunc, argc, argv) ==
  IF argc < Argc(cfunc) THEN Outcome(kNull, <<>>)
  ELSE IF Argc(cfunc) \in 0 .. kCFunctionMaxArgc
       THEN Outcome(Invoke(Pointer(cfunc), SubSeq(argv, 1, argc)),
                    <<<<Pointer(cfunc), SubSeq(argv, 1, argc)>>>>)
       ELSE Outcome(kNull, <<>>)

\* charly_call_cfunction: too few arguments return kNull; case n of the
\* switch calls the pointer with argv[0] .. argv[n - 1]; without a case for
\* cfunc->argc the switch falls through to return kNull
charly_call_cfunction(cfunc, argc, argv) ==
  IF argc < Argc(cfunc) THEN Outcome(kNull, <<>>)
  ELSE IF Argc(cfunc) \in 0 .. kCFunctionMaxArgc
       THEN Outcome(Invoke(Pointer(cfunc), SubSeq(argv, 1, Argc(cfunc))),
                    <<<<Pointer(cfunc), SubSeq(argv, 1, Argc(cfunc))>>>>)
       ELSE Outcome(kNull, <<>>)

call_charly_call_cfunction(cfunc, argc, argv) ==
  Called("charly_call_cfunction", <<cfunc, argc, argv>>,
         charly_call_cfunction(cfunc, argc, argv))

NextCFunction ==
  \E cfunc \in CFunctions, argc \in ArgcValues \cup {3, 23}, first \in {0, 100} :
    call_charly_call_cfunction(cfunc, argc, Argv(argc, first))

SpecCFunction == InitSched /\ [][NextCFunction]_vars

(***************************************************************************)
(* The keyword context of the parser (compiler/parser.cpp).  Every parse   *)
(* function that narrows or widens the context copies m_keyword_context    *)
(* into a local kwcontext, changes the members, parses its body and        *)
(* assigns the copy back.  The context is the set of the keywords whose    *)
(* member is true.  The input is any nesting of constructs of at most      *)
(* MaxParseDepth parse functions.                                          *)
(***************************************************************************)
MaxParseDepth == 7

\* Parser::parse_block, the context of the statements between the braces
parse_block(context) == context \ {"export", "import"}

\* Parser::parse_block_or_statement, the context of the block or statement
parse_block_or_statement(context) == context \ {"export", "import"}

\* Parser::parse_defer, the context of the deferred statement
parse_defer(context) == context \ {"return", "break", "continue"}

\* Parser::parse_while, the context of the body
parse_while(context) == context \cup {"break", "continue"}

\* Parser::parse_loop, the context of the body
parse_loop(context) == context \cup {"break", "continue"}

\* Parser::parse_try, the context of the statement after finally
parse_try_finally(context) == context \ {"return", "break", "continue"}

\* Parser::parse_switch, the context of the statement of a case or default
parse_switch_case(context) == context \cup {"break"}

\* Parser::parse_spawn, the context of the spawned statement
parse_spawn(context) ==
  (context \cup {"return", "yield"}) \ {"break", "continue", "super"}

\* parse_function that leaves _break and _continue as they are
parse_function_in_loop(context) ==
  (context \cup {"return", "yield"}) \ {"export", "import", "super"}

\* Parser::parse_function(class_function = false), the context of the body
parse_function(context) ==
  (context \cup {"return", "yield"}) \ {"break", "continue", "export", "import", "super"}

\* Parser::parse_arrow_function, the context of the body
parse_arrow_function(context) ==
  (context \cup {"return", "yield"}) \ {"break", "continue", "export", "import", "super"}

\* the parse functions that keep a local kwcontext; "case" and "finally" are
\* the blocks of parse_switch and parse_try that declare one
Savers ==
  {"parse_block", "parse_block_or_statement", "parse_defer", "parse_while", "parse_loop",
   "finally", "case", "parse_spawn", "parse_function", "parse_arrow_function"}

\* the keyword context a parse function parses its body in
BodyContext(function, context) ==
  CASE function = "parse_block" -> parse_block(context)
    [] function = "parse_block_or_statement" -> parse_block_or_statement(context)
    [] function = "parse_defer" -> parse_defer(context)
    [] function = "parse_while" -> parse_while(context)
    [] function = "parse_loop" -> parse_loop(context)
    [] function = "finally" -> parse_try_finally(context)
    [] function = "case" -> parse_switch_case(context)
    [] function = "parse_spawn" -> parse_spawn(context)
    [] function = "parse_function" -> parse_function(context)
    [] function = "parse_arrow_function" -> parse_arrow_function(context)
    [] OTHER -> context

\* Parser::parse_jump_statement: the statements that open a construct (defer,
\* and the expressions spawn, func and ->); break and continue are actions
JumpStatements == {"parse_defer", "parse_spawn", "parse_function", "parse_arrow_function"}

\* Parser::parse_statement: the constructs a statement of a block can be
Statements ==
  {"parse_block", "parse_if", "parse_while", "parse_loop", "parse_try", "parse_switch",
   "parse_for"} \cup JumpStatements

\* the parse functions whose body is one call of parse_block_or_statement
OneBody ==
  {"parse_while", "parse_loop", "parse_for", "parse_defer", "parse_spawn", "case", "finally"}

\* the parse functions the scope can call next
Callees(scope) ==
  CASE Name(scope) \in {"parse_program", "parse_block"} -> Statements
    [] Name(scope) \in {"parse_block_or_statement", "parse_function", "parse_arrow_function"}
         /\ Position(scope) = "body" -> {"parse_block"} \cup JumpStatements
    [] Name(scope) \in OneBody /\ Position(scope) = "body" -> {"parse_block_or_statement"}
    [] Name(scope) = "parse_if" /\ Position(scope) = "body" -> {"parse_block_or_statement"}
    [] Name(scope) = "parse_if" /\ Position(scope) = "else" -> {"parse_block_or_statement", "parse_if"}
    [] Name(scope) = "parse_try" /\ Position(scope) \in {"body", "catch"} -> {"parse_block_or_statement"}
    [] Name(scope) = "parse_try" /\ Position(scope) = "finally" -> {"finally"}
    [] Name(scope) = "parse_switch" -> {"case"}
    [] OTHER -> {}

\* where the scope is after the call or statement it parses next
After(scope) ==
  CASE Name(scope) \in {"parse_program", "parse_block", "parse_switch"} -> "body"
    [] Name(scope) = "parse_if" /\ Position(scope) = "body" -> "else"
    [] Name(scope) = "parse_try" /\ Position(scope) = "body" -> "catch"
    [] Name(scope) = "parse_try" /\ Position(scope) = "catch" -> "finally"
    [] OTHER -> "done"

\* the scope can take a break or continue statement: parse_statement and
\* parse_jump_statement are called from here
TakesStatement(scope) ==
  \/ Name(scope) \in {"parse_program", "parse_block"}
  \/ /\ Name(scope) \in {"parse_block_or_statement", "parse_function", "parse_arrow_function"}
     /\ Position(scope) = "body"

\* the parse function has parsed all it needs and can return
CanReturn(scope) ==
  \/ Position(scope) = "done"
  \/ Name(scope) \in {"parse_block", "parse_switch"}
  \/ Name(scope) = "parse_if" /\ Position(scope) = "else"
  \/ Name(scope) = "parse_try" /\ Position(scope) = "finally"

Innermost == call_stack[Len(call_stack)]

Advance == [call_stack EXCEPT ![Len(call_stack)][2] = After(Innermost)]

ParserKeeps == UNCHANGED <<gcVars, rootVars, obsVars, schedVars, status_code, native_log,
                           gen_log, try_regions, last_op, code, lockVars, valueVars>>

\* the innermost parse function calls the given one: it copies the context
\* into its kwcontext, if it has one, and sets the context of its body
Call(function) ==
  /\ Len(call_stack) < MaxParseDepth
  /\ function \in Callees(Innermost)
  /\ call_stack' = Append(Advance,
                          Scope(function, "body",
                                IF function \in Savers THEN m_keyword_context ELSE {},
                                m_keyword_context))
  /\ m_keyword_context' = BodyContext(function, m_keyword_context)
  /\ parsed' = ""
  /\ m_console' = <<>>
  /\ ParserKeeps

\* the innermost parse function returns: m_keyword_context = kwcontext
Leave ==
  /\ Len(call_stack) > 1
  /\ CanReturn(Innermost)
  /\ call_stack' = SubSeq(call_stack, 1, Len(call_stack) - 1)
  /\ m_keyword_context' = IF Name(Innermost) \in Savers THEN Kwcontext(Innermost)
                          ELSE m_keyword_context
  /\ parsed' = ""
  /\ m_console' = <<>>
  /\ ParserKeeps

\* Parser::parse_break
parse_break ==
  /\ TakesStatement(Innermost)
  /\ call_stack' = Advance
  /\ parsed' = "break"
  /\ m_console' = IF "break" \notin m_keyword_context
                  THEN <<"break statement not allowed at this point">>
                  ELSE <<>>
  /\ UNCHANGED m_keyword_context
  /\ ParserKeeps

\* Parser::parse_continue
parse_continue ==
  /\ TakesStatement(Innermost)
  /\ call_stack' = Advance
  /\ parsed' = "continue"
  /\ m_console' = IF "continue" \notin m_keyword_context
                  THEN <<"continue statement not allowed at this point">>
                  ELSE <<>>
  /\ UNCHANGED m_keyword_context
  /\ ParserKeeps

NextParser ==
  \/ \E function \in Statements \cup {"parse_block_or_statement", "case", "finally"} :
       Call(function)
  \/ Leave
  \/ parse_break
  \/ parse_continue

SpecParser == InitSched /\ [][NextParser]_vars

(***************************************************************************)
(* Properties of the collector                                             *)
(***************************************************************************)
\* the cells a cell holds a reference to (data model): every pointer and
\* VALUE member and every container entry; a finished generator keeps only
\* its property map
PointsTo(c) ==
  {v \in (IF c.type = kTypeGenerator /\ c.f1
          THEN c.container
          ELSE Range(c.slots) \cup c.container \cup c.data) : v \in CellIds}

\* the root set: frame chain, catch stack, operand stack, pop_queue, globals,
\* primitive classes, uncaught-exception handler, error class, task queue,
\* timers, tickers, paused threads, worker records
VMRootSet ==
  {frames, catchstack, uncaught_exception_handler, internal_error_class, globals}
    \cup Range(primitive) \cup Range(stack) \cup Range(pop_queue)
    \cup UNION {IF task_queue[i].is_thread THEN {task_queue[i].argument}
                ELSE {task_queue[i].func} \cup Range(task_queue[i].arguments)
                : i \in DOMAIN task_queue}
    \cup UNION {{timers[k].func} \cup Range(timers[k].arguments) : k \in DOMAIN timers}
    \cup UNION {{tickers[k].task.func} \cup Range(tickers[k].task.arguments)
                : k \in DOMAIN tickers}
    \cup UNION {Range(paused_threads[k].stack)
                  \cup {paused_threads[k].frame, paused_threads[k].catchstack}
                : k \in DOMAIN paused_threads}
    \cup UNION {{worker_threads[k].cfunc, worker_threads[k].callback,
                 worker_threads[k].error_value} \cup Range(worker_threads[k].arguments)
                : k \in DOMAIN worker_threads}

RECURSIVE Closure(_, _)
Closure(h, S) ==
  LET N == S \cup UNION {PointsTo(h[c]) : c \in S}
  IN IF N = S THEN S ELSE Closure(h, N)

\* the cells reachable from the root set (pinned temporaries included)
Reachable ==
  Closure(cell, {v \in VMRootSet \cup temporaries : v \in DOMAIN cell})

\* the cells on the freelist that starts at cell c of heap h
RECURSIVE FreeListFrom(_, _, _)
FreeListFrom(h, c, seen) ==
  IF c = nullptr \/ c \in seen THEN seen ELSE FreeListFrom(h, h[c].next, seen \cup {c})

FreeList == FreeListFrom(cell, free_cell, {})

\* C1: when an operation ran a collection with the VM running, every cell
\* that was reachable from the root set is still allocated (same type, not on
\* the freelist) with its mark bit cleared, and every cell that was
\* unreachable and not typed Dead is typed Dead, is on the freelist and has
\* had the clean() of its type run (catch tables have none).
C1_CollectKeepsReachableFreesRest ==
  [][(collected' /\ running) =>
       \A c \in DOMAIN cell :
         /\ c \in Reachable =>
              /\ cell'[c].type = cell[c].type
              /\ cell'[c].type # kTypeDead
              /\ ~cell'[c].mark
              /\ c \notin FreeList'
         /\ (c \notin Reachable /\ cell[c].type # kTypeDead) =>
              /\ cell'[c].type = kTypeDead
              /\ c \in FreeList'
              /\ HasClean(cell[c].type) => c \in cleaned']_vars

\* a collection that ran with the VM running kept a reachable cell and freed
\* an unreachable one
C1_Witness ==
  /\ collected /\ running /\ alloc_result = nullptr
  /\ cleaned # {}
  /\ \E c \in Reachable : cell[c].type # kTypeDead

\* a step of the program that calls allocate()
AllocateStep ==
  \/ \E p \in RootPlaces : \E t \in PlaceTypes(p) : \E i \in ArgIndexes(p) : Allocate(p, t, i)
  \/ \E c0 \in LiveCells : \E f \in FieldPlaces(cell[c0].type) :
       \E t \in FieldTypes(cell[c0].type, f) : AllocateField(c0, f, t)

\* C2: the freelist is never empty when allocate() is entered; allocate()
\* returns the cell that was the head of the freelist, never null; it runs a
\* collection when the free cells left after the pop are fewer than
\* min_free_cells, and when that collection frees nothing and the freelist is
\* empty it adds arenas.
C2_AllocateNeverFails ==
  /\ [](free_cell # nullptr)
  /\ [][AllocateStep =>
          /\ alloc_result' = free_cell
          /\ alloc_result' # nullptr
          /\ (Cardinality(FreeList) - 1 < min_free_cells) => collected'
          /\ (cell[free_cell].next = nullptr /\ LiveCells \subseteq LiveCells')
               => heaps' > heaps]_vars

\* an allocation took the last free cell, collected without freeing anything
\* and grew the heap
C2_Witness ==
  /\ alloc_result # nullptr /\ collected /\ cleaned = {}
  /\ heaps > initial_heap_count
  /\ free_cell # nullptr


(***************************************************************************)
(* Properties of the scheduler                                             *)
(***************************************************************************)
\* the positions of an enqueue history at which the timer or ticker id fired
FiredIn(log, id) ==
  {i \in DOMAIN log : log[i].src \in {"timer", "ticker"} /\ log[i].task.uid = id}

Fired(id) == FiredIn(enq_log, id)

\* the registrations of one kind, and the registration of an id
Registered(kind) == {r \in timer_log : r.kind = kind}

RegistrationOf(id) == CHOOSE r \in timer_log : r.uid = id

\* C3: the tasks run in the order in which they were enqueued, whatever
\* enqueued them (the initial task, a timer drain, a worker, a resume), and
\* none is lost or run twice: the enqueued tasks are, in order, the tasks run
\* so far followed by the tasks still queued.
C3_TasksRunInEnqueueOrder ==
  [i \in 1 .. Len(enq_log) |-> enq_log[i].task] = run_log \o task_queue

C3_Witness ==
  /\ Len(run_log) >= 3
  /\ \E i, j \in 1 .. Len(run_log) :
       /\ i < j
       /\ {enq_log[i].src, enq_log[j].src} = {"timer", "worker"}
       /\ enq_log[i].task # enq_log[j].task

TimerIds == 0 .. (next_timer_id - 1)

\* C6: clear_timer(id) and clear_ticker(id) remove the entry of that id and
\* leave every other timer and ticker and the task queue as they were; an id
\* that was cleared is never enqueued again; a callback that was already
\* queued when its id was cleared still runs before the main loop ends.
C6_ClearRemovesOnlyThatEntry ==
  /\ [][\A id \in TimerIds :
          /\ clear_timer(id) =>
               /\ \A k \in DOMAIN timers' : timers'[k].uid # id
               /\ \A k \in DOMAIN timers :
                    timers[k].uid # id => (k \in DOMAIN timers' /\ timers'[k] = timers[k])
               /\ tickers' = tickers
               /\ task_queue' = task_queue
          /\ clear_ticker(id) =>
               /\ \A k \in DOMAIN tickers' : tickers'[k].task.uid # id
               /\ \A k \in DOMAIN tickers :
                    tickers[k].task.uid # id =>
                      (k \in DOMAIN tickers' /\ tickers'[k] = tickers[k])
               /\ timers' = timers
               /\ task_queue' = task_queue]_vars
  /\ [][\A id \in cleared : FiredIn(enq_log', id) = Fired(id)]_vars
  /\ [](pc = "exited" => \A id \in cleared : \A i \in Fired(id) : i <= Len(run_log))

C6_Witness ==
  /\ pc = "run"
  /\ \E i \in DOMAIN enq_log :
       /\ i > Len(run_log)
       /\ enq_log[i].src \in {"timer", "ticker"}
       /\ enq_log[i].task.uid \in cleared

\* C7: the main loop ends only when the task queue is empty and no timer,
\* ticker, worker thread or suspended fiber is left, and once the main thread
\* is in its loop with nothing left it ends.
C7_MainLoopEndsWhenNothingLeft ==
  /\ [][(pc # "exited" /\ pc' = "exited") =>
          /\ pc = "loop"
          /\ task_queue = <<>>
          /\ DOMAIN timers = {} /\ DOMAIN tickers = {}
          /\ DOMAIN worker_threads = {} /\ DOMAIN paused_threads = {}]_vars
  /\ [][pc = "exited" => pc' = "exited"]_vars
  /\ (/\ pc = "loop"
      /\ task_queue = <<>>
      /\ DOMAIN timers = {} /\ DOMAIN tickers = {}
      /\ DOMAIN worker_threads = {} /\ DOMAIN paused_threads = {}) ~> (pc = "exited")

C7_Witness ==
  /\ pc = "exited"
  /\ Len(run_log) >= 3
  /\ suspend_log # <<>>
  /\ worker_state # <<>>

C9_SuspendAndResumeKeepTheFiber ==
  /\ [][suspend_thread =>
          /\ next_thread_id \notin DOMAIN paused_threads
          /\ next_thread_id \in DOMAIN paused_threads'
          /\ paused_threads'[next_thread_id].stack = stack
          /\ paused_threads'[next_thread_id].frame = frames
          /\ paused_threads'[next_thread_id].catchstack = catchstack
          /\ paused_threads'[next_thread_id].resume_address = ip'
          /\ stack' = <<>>
          /\ \A k \in DOMAIN paused_threads :
               k \in DOMAIN paused_threads' /\ paused_threads'[k] = paused_threads[k]]_vars
  /\ [][(Len(run_log') = Len(run_log) + 1 /\ run_log'[Len(run_log')].is_thread) =>
          LET task == run_log'[Len(run_log')]
          IN /\ task.id \in DOMAIN paused_threads
             /\ task.id \notin DOMAIN paused_threads'
             /\ stack' = paused_threads[task.id].stack \o <<task.argument>>
             /\ frames' = paused_threads[task.id].frame
             /\ catchstack' = paused_threads[task.id].catchstack
             /\ ip' = paused_threads[task.id].resume_address
             /\ pc' = "run"]_vars

C9_Witness ==
  /\ pc = "run"
  /\ run_log # <<>>
  /\ run_log[Len(run_log)].is_thread
  /\ Len(stack) > 1
  /\ frames # nullptr
  /\ \E i \in DOMAIN suspend_log :
       /\ suspend_log[i].key = run_log[Len(run_log)].id
       /\ suspend_log[i].thread.frame = frames

\* the callback tasks that workers enqueued for worker k
WorkerCallbacks(k) ==
  {i \in DOMAIN enq_log : enq_log[i].src = "worker" /\ enq_log[i].worker = k}

\* C10: while a worker runs its native function the record of the worker is
\* in worker_threads and everything it refers to stays allocated through
\* every collection; the worker enqueues nothing before it completes and
\* exactly one callback task when it completes, which calls the callback of
\* the worker with the return value, or with the error value when the native
\* function threw; the record is gone afterwards.
C10_WorkerCallbackAndRoots ==
  /\ [](\A k \in DOMAIN worker_state :
          IF worker_state[k] = "running"
          THEN /\ k \in DOMAIN worker_threads
               /\ WorkerCallbacks(k) = {}
               /\ \A v \in {worker_threads[k].cfunc, worker_threads[k].callback}
                             \cup Range(worker_threads[k].arguments) :
                    (charly_is_ptr(v) /\ v # nullptr) => cell[v].type # kTypeDead
          ELSE /\ k \notin DOMAIN worker_threads
               /\ Cardinality(WorkerCallbacks(k)) = 1)
  /\ [][\A k \in DOMAIN worker_state :
          (worker_state[k] = "running" /\ worker_state'[k] = "closed") =>
             LET task == enq_log'[Len(enq_log')].task
             IN /\ Len(enq_log') = Len(enq_log) + 1
                /\ task_queue' = Append(task_queue, task)
                /\ ~task.is_thread
                /\ task.func = worker_threads[k].callback
                /\ \/ task.arguments = <<NativeResult(k), kNull, kNull, kNull>>
                   \/ task.arguments = <<kNull, NativeError(k), kNull, kNull>>]_vars

C10_Witness ==
  /\ pc = "run"
  /\ collected
  /\ \E k \in DOMAIN worker_state :
       /\ worker_state[k] = "running"
       /\ Len(run_log) >= 2
       /\ \E v \in Range(worker_threads[k].arguments) : charly_is_ptr(v) /\ v # nullptr

\* the cells of the lexical environment that starts at the cells of S: the
\* frames, their lexical parents and the values of their locals
RECURSIVE LexicalEnvironment(_, _)
LexicalEnvironment(h, S) ==
  LET N == S \cup UNION {IF h[c].type = kTypeFrame
                         THEN {v \in {h[c].slots.parent_environment_frame} \cup h[c].data :
                                 v \in DOMAIN h /\ v # nullptr}
                         ELSE {} : c \in S}
  IN IF N = S THEN S ELSE LexicalEnvironment(h, N)

\* the functions reachable from the roots that captured a frame
Closures == {f \in Reachable : cell[f].type = kTypeFunction /\ cell[f].slots.context # nullptr}

Ran(function, thread) ==
  [function |-> function, thread |-> thread,
   thread_policy |-> cell[function].members.thread_policy]

\* the interpreter is about to call the native function on top of the stack
CallsNative ==
  /\ Executing
  /\ Len(stack) > 0
  /\ stack[Len(stack)] \in CellIds
  /\ cell[stack[Len(stack)]].type = kTypeCFunction

\* C11: a native function only ever runs on a thread its policy allows.  A
\* main-only function called by a worker thread and a worker-only function
\* called by the main thread end in a panic and the native code does not
\* run; a function tagged both runs on the main thread and on a worker.
C11_ThreadPolicyIsEnforced ==
  /\ [](\A i \in DOMAIN native_log :
          IF native_log[i].thread = main_thread_id
          THEN native_log[i].thread_policy \in {kThreadMain, kThreadBoth}
          ELSE native_log[i].thread_policy \in {kThreadWorker, kThreadBoth})
  /\ [][\A k \in DOMAIN worker_threads :
          worker_call_cfunction(k) =>
            LET function == worker_threads[k].cfunc
                policy == cell[function].members.thread_policy
            IN /\ policy = kThreadMain =>
                    /\ status_code' = kStatusThreadPolicy
                    /\ halted'
                    /\ native_log' = native_log
               /\ policy \in {kThreadWorker, kThreadBoth} =>
                    /\ status_code' = 0
                    /\ native_log' = Append(native_log, Ran(function, worker_thread_id))]_vars
  /\ [][(CallsNative /\ op_call) =>
          LET function == stack[Len(stack)]
              policy == cell[function].members.thread_policy
          IN /\ policy = kThreadWorker =>
                  /\ status_code' = kStatusThreadPolicy
                  /\ halted'
                  /\ native_log' = native_log
             /\ policy \in {kThreadMain, kThreadBoth} =>
                  /\ status_code' = 0
                  /\ native_log' = Append(native_log, Ran(function, main_thread_id))]_vars

\* a function tagged both ran on the main thread, and a worker that called a
\* main-only function ended the machine in a panic without running it
C11_Witness ==
  /\ status_code = kStatusThreadPolicy
  /\ halted
  /\ \E i \in DOMAIN native_log :
       native_log[i].thread = main_thread_id /\ native_log[i].thread_policy = kThreadBoth
  /\ \E k \in DOMAIN worker_threads :
       /\ worker_state[k] = "called"
       /\ cell[worker_threads[k].cfunc].members.thread_policy = kThreadMain
       /\ \A i \in DOMAIN native_log : native_log[i].function # worker_threads[k].cfunc

\* C12: a throw with a catch-table on the chain leaves the frame that owns
\* the handling table current, the operand stack at exactly the depth the
\* table recorded plus the payload, the instruction pointer at the handler
\* and the table off the chain; with an empty chain the uncaught-exception
\* handler is called when one is set, and the machine halts with an error
\* otherwise.
C12_UnwindReachesTheHandler ==
  [][op_throw =>
       LET payload == stack[Len(stack)]
           tables == CatchChain(cell, catchstack)
           alive == {i \in DOMAIN tables :
                       cell[tables[i]].slots.frame \in FrameChain(cell, frames)}
       IN IF catchstack # nullptr
          THEN /\ alive # {}
               /\ LET table == tables[CHOOSE i \in alive : \A j \in alive : i <= j]
                  IN /\ frames' = cell[table].slots.frame
                     /\ Len(stack') = cell[table].members.stacksize + 1
                     /\ \A i \in 1 .. cell[table].members.stacksize : stack'[i] = stack[i]
                     /\ stack'[Len(stack')] = payload
                     /\ ip' = cell[table].members.address
                     /\ catchstack' = cell[table].slots.parent
                     /\ table \notin Range(CatchChain(cell', catchstack'))
                     /\ ~halted' /\ status_code' = 0
          ELSE IF uncaught_exception_handler # kNull
          THEN /\ frames' # frames
               /\ cell'[frames'].type = kTypeFrame
               /\ cell'[frames'].slots.caller_value = uncaught_exception_handler
               /\ payload \in CellIds => payload \in cell'[frames'].data
               /\ ip' = cell[uncaught_exception_handler].members.body_address
               /\ ~halted' /\ status_code' = 0
          ELSE /\ halted' /\ status_code' = kStatusUncaughtException]_vars

\* a function threw with two values on top of the depth its caller's
\* catch-table recorded: the caller's frame is current again and the callee's
\* frame is still in the heap
C12_Witness ==
  /\ last_op = "throw"
  /\ status_code = 0
  /\ uncaught_exception_handler = kNull
  /\ frames # nullptr
  /\ cell[frames].slots.parent = nullptr
  /\ \E c \in DOMAIN cell : cell[c].type = kTypeFrame /\ cell[c].slots.parent = frames

\* C13: every catch-table on the catch chain belongs to a frame that is on
\* the frame chain and to a try region that is still being executed: once
\* control left a try region, by its end, a throw, a return, a break or a
\* continue, the table the region registered is off the chain.
C13_CatchChainHoldsOnlyOpenRegions ==
  \A i \in DOMAIN CatchChain(cell, catchstack) :
    LET table == CatchChain(cell, catchstack)[i]
    IN /\ cell[table].slots.frame \in FrameChain(cell, frames)
       /\ table \in try_regions

\* C14: a Return pops the active frame, continues at the frame's return
\* address and leaves the operand stack at exactly the depth the frame
\* recorded at entry plus the return value, whatever the function left on
\* the stack; when the frame has halt_after_return set the interpreter
\* stops and the scheduler has control, otherwise it keeps running.
C14_ReturnRestoresTheCaller ==
  [][op_return =>
       LET frame == cell[frames]
           depth == frame.members.stacksize_at_entry
       IN /\ frames' = frame.slots.parent
          /\ ip' = frame.members.return_address
          /\ Len(stack') = depth + 1
          /\ \A i \in 1 .. depth : stack'[i] = stack[i]
          /\ stack'[depth + 1] = stack[Len(stack)]
          /\ IF frame.f2
             THEN halted' /\ pc' = "loop"
             ELSE ~halted' /\ pc' = "run"]_vars

\* a called function returned to the root-level frame of the task, and that
\* frame returned with its four arguments still on the stack: the stack
\* holds the return value only and the scheduler has control
C14_Witness ==
  /\ last_op = "return"
  /\ halted
  /\ pc = "loop"
  /\ frames = nullptr
  /\ Len(stack) = 1
  /\ \E c \in DOMAIN cell :
       /\ cell[c].type = kTypeFrame
       /\ ~cell[c].f2
       /\ cell[c].slots.parent # nullptr

\* the generators in the heap
Generators == {c \in DOMAIN cell : cell[c].type = kTypeGenerator}

\* the values the calls of generator g returned so far, in order
Results(g) ==
  LET at == {i \in DOMAIN gen_log : gen_log[i].generator = g}
  IN [k \in 1 .. Cardinality(at) |-> gen_log[SetToSeq(at)[k]].value]

\* the values the body of the loaded program yields, in order
BodyYields ==
  LET at == {a \in DOMAIN code : code[a].op = "Yield"}
  IN [k \in 1 .. Cardinality(at) |-> code[SetToSeq(at)[k] - 1].arg]

\* C15: a generator whose body yields n values returns them in order on its
\* first n calls and null on call n + 1, after which it is finished; a
\* finished generator is falsy, stays finished, and every later call of it
\* returns null.
C15_GeneratorYieldsThenNull ==
  /\ [](\A g \in Generators :
          /\ \A i \in DOMAIN Results(g) :
               Results(g)[i] = IF i <= Len(BodyYields) THEN BodyYields[i] ELSE kNull
          /\ cell[g].f1 <=> Len(Results(g)) > Len(BodyYields)
          /\ cell[g].f1 => ~charly_truthyness(cell, g))
  /\ [][\A g \in Generators :
          (cell[g].f1 /\ IsGenerator(cell', g)) => cell'[g].f1]_vars
  /\ [][(/\ op_call
         /\ Len(stack) > 0
         /\ IsGenerator(cell, stack[Len(stack)])
         /\ cell[stack[Len(stack)]].f1) =>
          /\ status_code' = 0
          /\ ~halted'
          /\ stack' = Append(SubSeq(stack, 1, Len(stack) - 1), kNull)
          /\ cell'[stack[Len(stack)]].f1]_vars

(***************************************************************************)
(* Properties of the locks                                                 *)
(***************************************************************************)
\* thread t is inside a collection: marking or sweeping
InCollection(t) ==
  threads[t].pc \in {"roots", "scan_tasks", "scan_maps", "scan_workers", "sweep"}

\* C17: a thread that runs a collection holds g_mutex from the first mark to
\* the end of the sweep, whether it called collect itself, do_collect or
\* allocate, and meanwhile no other thread is inside allocate.
C17_CollectionHoldsTheHeapMutex ==
  \A t \in Threads :
    InCollection(t) =>
      /\ g_mutex.owner = t
      /\ \A u \in Threads \ {t} : threads[u].via # "allocate"

\* C18: a thread that holds a scheduler mutex and the heap mutex acquired
\* the scheduler mutex first: no thread acquires task_queue_m or
\* worker_threads_m while it holds g_mutex.
C18_SchedulerMutexBeforeHeapMutex ==
  \A t \in Threads :
    \A i, j \in DOMAIN threads[t].held :
      (i < j /\ threads[t].held[i] = "g_mutex") =>
        threads[t].held[j] \notin {"task_queue_m", "worker_threads_m"}

\* C19: a thread that reads task_queue, timers, tickers or paused_threads,
\* the collector's root scan included, holds the scheduler mutex.
C19_SchedulerCollectionsUnderTheMutex ==
  \A t \in Threads :
    threads[t].pc \in {"scan_tasks", "scan_maps"} =>
      \E i \in DOMAIN threads[t].held : threads[t].held[i] = "task_queue_m"

(***************************************************************************)
(* Two collections in a row                                                *)
(***************************************************************************)
\* the step before this state was a collection run by do_collect: every
\* other step of the program clears collected or hands out a cell
JustCollected == collected /\ alloc_result = nullptr

\* this step frees no cell and leaves the freelist as it is
CollectsNothing ==
  /\ cleaned' = {}
  /\ free_cell' = free_cell
  /\ remaining_free_cells' = remaining_free_cells
  /\ \A c \in DOMAIN cell : cell'[c].next = cell[c].next

\* C20: marking is idempotent: a collection that follows a collection with
\* no mutation in between frees zero cells and leaves the freelist and
\* remaining_free_cells unchanged.
C20_SecondCollectionFreesNothing ==
  [][(JustCollected /\ do_collect) => CollectsNothing]_vars

(***************************************************************************)
(* Properties of the freelist                                              *)
(***************************************************************************)
\* the cells that are allocated in heap h and typed Dead in heap k
FreedBetween(h, k) ==
  {c \in DOMAIN h : h[c].type # kTypeDead /\ k[c].type = kTypeDead}

\* from the current state: allocate() returns a cell, its creator makes it a
\* string and keeps no reference to it, collect() runs, allocate() is called
\* again.  first is the cell of the first call, freed the cells the
\* collection deallocated, second the cell of the second call.
AllocateCollectAllocate ==
  LET g1 == allocate(GC)
      c == g1.alloc_result
      g2 == [g1 EXCEPT !.cell = [@ EXCEPT ![c] = MemoryCell(kTypeString, nullptr)]]
      g3 == collect(g2)
      g4 == allocate(g3)
  IN [first |-> c, freed |-> FreedBetween(g2.cell, g3.cell), second |-> g4.alloc_result]

C22_DeadCellsAreNotFreedAgain ==
  [][collected' =>
       /\ \A c \in DOMAIN cell :
            cell[c].type = kTypeDead =>
              /\ c \notin cleaned'
              /\ IF c = alloc_result' THEN c \notin FreeList' ELSE cell'[c] = cell[c]
       /\ remaining_free_cells' =
            remaining_free_cells + Cardinality(FreedBetween(cell, cell'))
              + (heaps' - heaps) * heap_cell_count
              - (IF alloc_result' # nullptr THEN 1 ELSE 0)
       /\ (alloc_result' = nullptr /\ FreedBetween(cell, cell') = {}) =>
            /\ free_cell' = free_cell
            /\ remaining_free_cells' = remaining_free_cells
            /\ cleaned' = {}
            /\ FreeList' = FreeList]_vars

\* a collection ran over cells in use and dead cells and freed nothing
C22_Witness ==
  /\ collected /\ alloc_result = nullptr /\ cleaned = {}
  /\ \E c \in DOMAIN cell : cell[c].type = kTypeDead
  /\ \E c \in DOMAIN cell : cell[c].type # kTypeDead
  /\ remaining_free_cells = Cardinality(FreeList)

\* the cell allocate() hands to its caller from the current state, as the
\* caller receives it
AllocatedCell ==
  LET g == allocate(GC)
  IN g.cell[g.alloc_result]

\* C23: every cell returned by allocate() is fully zeroed and typed Dead:
\* flags, mark bit and the whole payload, the freelist next pointer included,
\* are zero when the caller receives it.
C23_AllocateReturnsZeroedDeadCell == AllocatedCell = DeadCell(nullptr)

(***************************************************************************)
(* Properties of the temporaries                                           *)
(***************************************************************************)
\* the cells reachable from the registered temporaries
Pinned == Closure(cell, {v \in temporaries : v \in DOMAIN cell})

\* the cells a collection started in this state keeps: those reachable from
\* the temporaries and, while the VM runs, from its roots
Kept == IF running THEN Reachable ELSE Pinned

\* C24: a value registered with mark_persistent and every cell reachable from
\* it stay allocated through every collection, the VM running or not, until
\* unmark_persistent is called for the value; unmark_persistent of a value
\* that is not registered changes nothing; after unmark_persistent the value
\* is no root any more: a collection frees it unless something else reaches
\* it.
C24_TemporariesSurviveUntilUnmarked ==
  /\ [](\A c \in Pinned : cell[c].type # kTypeDead /\ c \notin FreeList)
  /\ [][collected' =>
          \A c \in DOMAIN cell :
            /\ c \in Pinned =>
                 /\ cell'[c].type = cell[c].type
                 /\ ~cell'[c].mark
                 /\ c \notin cleaned'
            /\ (c \notin Kept /\ cell[c].type # kTypeDead) =>
                 cell'[c].type = kTypeDead]_vars
  /\ [][\A v \in LiveCells :
          unmark_persistent(v) =>
            /\ temporaries' = temporaries \ {v}
            /\ v \notin temporaries => temporaries' = temporaries
            /\ UNCHANGED <<heaps, cell, free_cell, remaining_free_cells, rootVars>>]_vars
  /\ [][\A v \in LiveCells :
          mark_persistent(v) =>
            /\ temporaries' = temporaries \cup {v}
            /\ UNCHANGED <<heaps, cell, free_cell, remaining_free_cells, rootVars>>]_vars

\* a collection has run and a cell that only a registered temporary reaches
\* is still allocated
C24_Witness ==
  /\ collected /\ alloc_result = nullptr
  /\ \E v \in temporaries :
       \E c \in Closure(cell, {v}) \ {v} :
         /\ cell[c].type # kTypeDead
         /\ c \notin Closure(cell, {r \in VMRootSet : r \in DOMAIN cell})

(***************************************************************************)
(* Properties of the values                                                *)
(***************************************************************************)
\* kMinInt <= i <= kMaxInt for an int64_t i
InIntRange(i) == ~Less(i, kMinInt) /\ ~Less(kMaxInt, i)

\* C25: charly_create_integer keeps exactly the low 48 bits of its argument
\* under the integer signature, charly_int_to_int64 reads them back
\* sign-extended from bit 47, and so for every i with kMinInt <= i <= kMaxInt
\* charly_int_to_int64(charly_create_integer(i)) = i.
C25_IntegerRoundTrip ==
  fn = "charly_create_integer" =>
    LET i == fn_args[1]
        back == charly_int_to_int64(fn_result)
    IN /\ \A k \in 1 .. 48 : fn_result[k] = i[k]
       /\ \A k \in 49 .. 64 : fn_result[k] = kSignatureInteger[k]
       /\ \A k \in 1 .. 48 : back[k] = i[k]
       /\ \A k \in 49 .. 64 : back[k] = i[48]
       /\ InIntRange(i) => back = i

\* a negative integer of the 48-bit range other than -1 was encoded
C25_Witness ==
  /\ fn = "charly_create_integer"
  /\ InIntRange(fn_args[1])
  /\ fn_args[1][64] = 1
  /\ fn_args[1] # NOT(Zero(64))
  /\ charly_int_to_int64(fn_result) = fn_args[1]

\* C26: charly_create_double stores every double that is not a NaN, finite or
\* infinite, with its bits unchanged, the result is classified as a float and
\* charly_double_to_double gives the double back; every NaN is stored as the
\* one canonical NaN.
C26_DoubleStoredUnchanged ==
  fn = "charly_create_double" =>
    LET d == fn_args[1]
    IN /\ ~IsNaN(d) =>
            /\ fn_result = d
            /\ charly_is_float(fn_result)
            /\ charly_double_to_double(fn_result) = d
       /\ IsNaN(d) => fn_result = kNaN /\ charly_is_nan(fn_result)

\* C27: for every byte sequence s of 0 to 6 bytes, charly_create_istring(s)
\* is a string value, inline for 0 to 5 bytes and packed for 6,
\* charly_string_length returns the length of s and charly_string_data points
\* to that many bytes of the value, equal to s.
C27_ShortStringRoundTrip ==
  fn = "charly_create_istring" =>
    LET length == fn_args[2]
        big_endian == fn_args[3]
        s == SubSeq(fn_args[1], 1, length)
        data == charly_string_data(fn_result, big_endian)
    IN length \in 0 .. 6 =>
         /\ charly_is_immediate_string(fn_result)
         /\ charly_is_istring(fn_result) <=> length <= 5
         /\ charly_is_pstring(fn_result) <=> length = 6
         /\ charly_string_length(fn_result, big_endian) = length
         /\ data.base = "&value"
         /\ data.offset + length <= 8
         /\ ReadBuffer(fn_result, data, length, big_endian) = s

\* a packed string and an inline string of 5 bytes with NUL bytes and bytes
\* with the high bit set have been made on a big endian machine
C27_Witness ==
  /\ fn = "charly_create_istring"
  /\ fn_args[3]
  /\ fn_args[2] = 5
  /\ fn_args[1][1] = 0
  /\ fn_args[1][2] = 255
  /\ charly_is_istring(fn_result)
  /\ ReadBuffer(fn_result, charly_string_data(fn_result, TRUE), 5, TRUE) = <<0, 255, 98, 0, 128>>

\* the type predicates that hold for a value, by name
TypePredicates(value) ==
  {p \in {"null", "boolean", "int", "float", "symbol", "string", "pointer"} :
     \/ p = "null" /\ charly_is_null(value)
     \/ p = "boolean" /\ charly_is_boolean(value)
     \/ p = "int" /\ charly_is_int(value)
     \/ p = "float" /\ charly_is_float(value)
     \/ p = "symbol" /\ charly_is_symbol(value)
     \/ p = "string" /\ charly_is_string(value)
     \/ p = "pointer" /\ charly_is_on_heap(value)}

\* C28: for any 64-bit value exactly one of the type predicates null, boolean,
\* int, float, symbol, string and pointer holds; for a pointer charly_get_type
\* returns the type stored in the header of the cell; charly_get_type never
\* returns kTypeUnknown.
C28_TypePredicatesPartitionTheValues ==
  fn = "charly_get_type" =>
    LET value == fn_args[1]
    IN /\ Cardinality(TypePredicates(value)) = 1
       /\ charly_is_on_heap(value) => fn_result = cell[LoadByte(value, 0, FALSE)].type
       /\ fn_result # kTypeUnknown

\* the exact result of the call on two immediate integers, in 128 bits
ExactResult ==
  Bind2(SignExtend(charly_int_to_int64(fn_args[1]), 128),
        SignExtend(charly_int_to_int64(fn_args[2]), 128),
        LAMBDA a, b : IF fn = "charly_add_number" THEN ADD(a, b)
                      ELSE IF fn = "charly_sub_number" THEN SUB(a, b)
                      ELSE MUL(a, b))

IntegerCall ==
  /\ fn \in {"charly_add_number", "charly_sub_number", "charly_mul_number"}
  /\ charly_is_int(fn_args[1])
  /\ charly_is_int(fn_args[2])

\* kMinInt <= x <= kMaxInt for a word of 128 bits
InIntRangeWide(x) ==
  /\ ~Less(x, SignExtend(kMinInt, 128))
  /\ ~Less(SignExtend(kMaxInt, 128), x)

\* C29: for immediate integers a and b, add, sub and mul return the immediate
\* integer of the exact result when it lies in kMinInt..kMaxInt and a double
\* otherwise; a product that does not fit in 64 bits is promoted to double.
C29_IntegerArithmeticStaysExact ==
  IntegerCall =>
    Bind(ExactResult,
         LAMBDA exact :
           IF InIntRangeWide(exact)
             THEN fn_result = charly_create_integer(Low(exact, 64))
             ELSE fn_result # Trapped /\ charly_is_float(fn_result) /\ ~charly_is_int(fn_result))

\* the quotient of the operands of the call, as the double the division computes
Quotient ==
  Bind2(charly_number_to_double(fn_args[1]), charly_number_to_double(fn_args[2]), DoubleDiv)

\* the quotient is a whole number in kMinInt..kMaxInt
WholeQuotient(q) ==
  /\ ~IsNaN(q)
  /\ ~IsInfinity(q)
  /\ NoFraction(q)
  /\ DoubleLessEq(q, Int64ToDouble(kMaxInt))
  /\ DoubleLessEq(Int64ToDouble(kMinInt), q)

\* C30: the result of charly_div_number is classified as float and never as
\* an immediate integer, for all numeric operands, two integers where the
\* divisor divides the dividend exactly included.
C30_DivisionYieldsDouble ==
  fn = "charly_div_number" => charly_is_float(fn_result) /\ ~charly_is_int(fn_result)

\* C30, amended: the result of charly_div_number is the immediate integer of
\* the quotient when the quotient is a whole number in kMinInt..kMaxInt (the
\* integer 0 for the quotient -0.0) and a double otherwise, the quotient
\* itself when it is finite.
C30_DivisionYieldsNumber ==
  fn = "charly_div_number" =>
    Bind(Quotient,
         LAMBDA q :
           IF WholeQuotient(q)
             THEN /\ charly_is_int(fn_result)
                  /\ ~charly_is_float(fn_result)
                  /\ charly_number_to_double(fn_result) = (IF IsZero(q) THEN Zero(64) ELSE q)
           ELSE /\ charly_is_float(fn_result)
                /\ ~charly_is_int(fn_result)
                /\ ~(IsNaN(q) \/ IsInfinity(q)) => fn_result = q)

\* 4 / 2 has returned the immediate integer 2
C30_Witness ==
  /\ fn = "charly_div_number"
  /\ fn_args = <<charly_create_integer(Word(0, 0, 0, 4)), charly_create_integer(Word(0, 0, 0, 2))>>
  /\ fn_result = charly_create_integer(Word(0, 0, 0, 2))

\* the operand is one of the values the claim lists as false
ListedFalse(value) ==
  \/ value \in {kFalse, kNullValue, kNaN}
  \/ charly_is_int(value) /\ charly_int_to_int64(value) = Zero(64)
  \/ value \in {Zero(64), kMaskSignBit}
  \/ charly_is_on_heap(value) /\ cell[LoadByte(value, 0, FALSE)].type = kTypeGenerator
                              /\ cell[LoadByte(value, 0, FALSE)].f1

\* C31: unary not of a value is true exactly when the value is false, null,
\* integer zero, float +0 or -0, NaN or a finished generator: it is the
\* negation of charly_truthyness for every value, integers whose low 8 bits
\* are zero included.  A step that leaves the heap as it is is a call.
C31_NotNegatesTruthyness ==
  [][/\ cell' = cell /\ fn' = "charly_truthyness" =>
          (fn_result' <=> ~ListedFalse(fn_args'[1]))
     /\ cell' = cell /\ fn' = "charly_unot_number" =>
          /\ fn_result' = (IF ListedFalse(fn_args'[1]) THEN kTrue ELSE kFalse)
          /\ fn_result' = (IF charly_truthyness_value(fn_args'[1]) THEN kFalse ELSE kTrue)]_vars

\* the classes from klass up along parent_class
RECURSIVE Ancestry(_, _)
Ancestry(classes, klass) ==
  IF klass = kNull THEN <<>>
  ELSE <<klass>> \o Ancestry(classes, classes[klass].parent_class)

Contains(classes, k, symbol) ==
  \E entry \in classes[k].prototype.container : entry[1] = symbol

\* the value of the first prototype along the chain that contains the symbol
FirstMatch(classes, chain, symbol) ==
  IF \E i \in 1 .. Len(chain) : Contains(classes, chain[i], symbol)
    THEN LET i == CHOOSE i \in 1 .. Len(chain) :
                    /\ Contains(classes, chain[i], symbol)
                    /\ \A j \in 1 .. i - 1 : ~Contains(classes, chain[j], symbol)
         IN <<At(classes[chain[i]].prototype.container, symbol)>>
    ELSE nullopt

\* C32: charly_find_prototype_value returns the value of the first prototype
\* along the chain class.prototype, parent.prototype, ... that contains the
\* symbol and reports it missing only when no prototype of the chain contains
\* it; charly_find_super_method starts the same search at the parent class.
C32_FirstPrototypeWins ==
  /\ fn = "charly_find_prototype_value" =>
       fn_result = FirstMatch(fn_args[1], Ancestry(fn_args[1], fn_args[2]), fn_args[3])
  /\ fn = "charly_find_super_method" =>
       LET found == FirstMatch(fn_args[1],
                               Ancestry(fn_args[1], fn_args[1][fn_args[2]].parent_class),
                               fn_args[3])
       IN fn_result = (IF found = nullopt THEN kNull ELSE found[1])

\* C33: a function that uses `arguments` and is called with more arguments
\* than it declares finds all the arguments of the call, in call order, in
\* the arguments array and under $0 .. $n.
C33_AllArgumentsArePassed ==
  (/\ fn = "call_function"
   /\ fn_args[1].needs_arguments
   /\ Len(fn_args[2]) > fn_args[1].argc) =>
    /\ ~Thrown(fn_result)
    /\ Arguments(fn_result) = fn_args[2]
    /\ \A n \in 0 .. Len(fn_args[2]) - 1 : QuickAccess(fn_result, n) = fn_args[2][n + 1]

\* foo() declares no parameter and has been called as foo(1, 2, 3)
C33_Witness ==
  /\ fn = "call_function"
  /\ fn_args = <<[argc |-> 0, minimum_argc |-> 0, needs_arguments |-> TRUE], <<1, 2, 3>>>>
  /\ Arguments(fn_result) = <<1, 2, 3>>
  /\ QuickAccess(fn_result, 2) = 3

\* C34: charly_create_istring returns kNull for every input longer than 6
\* bytes, given as a pointer and a length or as a std::string of any length.
C34_LongStringsGiveNull ==
  /\ fn = "charly_create_istring" /\ fn_args[2] > 6 => fn_result = kNullValue
  /\ fn = "charly_create_istring(std::string)" /\ Len(fn_args[1]) > 6 =>
       fn_result = kNullValue

\* remaining_free_cells of the collector g is the length of its freelist
Counted(g) == g.remaining_free_cells = Cardinality(FreeListFrom(g.cell, g.free_cell, {}))

\* the collector inside allocate(), after the head was unlinked
Unlinked == [GC EXCEPT !.free_cell = cell[free_cell].next]

\* the next allocate() runs a collection
AllocateCollects ==
  /\ free_cell # nullptr
  /\ Unlinked.free_cell = nullptr \/ remaining_free_cells <= min_free_cells

\* C35: after every add_heap, grow_heap, allocate, deallocate and collect
\* returns, remaining_free_cells is the number of cells on the freelist, and
\* it never underflows; the collect() and the grow_heap() that allocate()
\* calls are among them.
C35_CounterIsFreelistLength ==
  /\ Counted(GC)
  /\ remaining_free_cells >= 0
  /\ AllocateCollects =>
       LET g == collect(Unlinked)
       IN Counted(g) /\ (g.free_cell = nullptr => Counted(grow_heap(g)))

\* C35, amended: whenever an operation the program calls on the collector
\* has returned, remaining_free_cells is the number of cells on the freelist
\* and it never underflows; inside allocate(), from the unlinking of the head
\* to the decrement at the end, it is one more than that number, so the
\* collect() and the grow_heap() that allocate() calls return with the
\* counter one too high.
C35_CounterIsFreelistLengthBetweenCalls ==
  /\ Counted(GC)
  /\ remaining_free_cells >= 0
  /\ AllocateCollects =>
       LET g == collect(Unlinked)
           OneMore(h) ==
             h.remaining_free_cells = Cardinality(FreeListFrom(h.cell, h.free_cell, {})) + 1
       IN OneMore(g) /\ (g.free_cell = nullptr => OneMore(grow_heap(g)))

\* an allocate() that ran a collection and grew the heap has returned
C35_Witness ==
  /\ alloc_result # nullptr
  /\ collected
  /\ heaps > initial_heap_count
  /\ Counted(GC)
  /\ remaining_free_cells > 0

\* the freelist as the sequence of its cells, cut off after n cells
RECURSIVE FreeChain(_, _, _)
FreeChain(h, c, n) ==
  IF c = nullptr \/ n = 0 THEN <<>> ELSE <<c>> \o FreeChain(h, h[c].next, n - 1)

Parked == Closure(cell, {v \in Range(pop_queue) : v \in DOMAIN cell})

\* this step keeps every parked cell allocated and as it was
KeepsParked ==
  \A c \in Parked : /\ cell'[c].type = cell[c].type
                    /\ cell'[c].type # kTypeDead
                    /\ c \notin cleaned'

\* this step leaves the root collections other than pop_queue as they are
OtherRootsUnchanged ==
  UNCHANGED <<frames, catchstack, uncaught_exception_handler, internal_error_class,
              globals, primitive, stack, task_queue, timers, tickers, paused_threads,
              worker_threads, temporaries>>

\* C37: a collection marks every value in pop_queue and leaves pop_queue
\* empty, and it changes no other root collection: operand stack, frame and
\* catch chains, task queue, timers, tickers, paused threads, worker records
\* and pinned temporaries are the same after collect as before.
C37_CollectDrainsPopQueue ==
  [][do_collect => /\ KeepsParked
                   /\ pop_queue' = <<>>
                   /\ OtherRootsUnchanged]_vars

\* C37, amended: a collection of a running VM marks every value in pop_queue
\* and leaves pop_queue empty; a collection of a VM that has stopped running
\* neither marks pop_queue nor changes it; no collection changes another
\* root collection.
C37_RunningCollectDrainsPopQueue ==
  [][do_collect => /\ IF running
                      THEN KeepsParked /\ pop_queue' = <<>>
                      ELSE pop_queue' = pop_queue
                   /\ OtherRootsUnchanged]_vars

\* a collection of the running VM has just kept a cell that only pop_queue
\* held: the cell is allocated, no root reaches it, and the queue is empty
C37_Witness ==
  /\ JustCollected
  /\ running
  /\ pop_queue = <<>>
  /\ stack # <<>>
  /\ \E c \in DOMAIN cell : cell[c].type # kTypeDead /\ c \notin Reachable

(***************************************************************************)
(* Native calls                                                            *)
(***************************************************************************)
\* C38: charly_call_cfunction invokes the native pointer only when at least
\* cfunc->argc arguments are supplied and cfunc->argc is at most 20, and then
\* once, with exactly the first cfunc->argc arguments, returning what the
\* native function returned; in every other case it returns null without
\* invoking the native function.
C38_NativeCallNeedsItsArguments ==
  fn = "charly_call_cfunction" =>
    LET cfunc == fn_args[1]
        argc == fn_args[2]
        argv == fn_args[3]
        passed == [i \in 1 .. Argc(cfunc) |-> argv[i]]
    IN IF argc >= Argc(cfunc) /\ Argc(cfunc) <= 20
       THEN /\ Invocations(fn_result) = <<<<Pointer(cfunc), passed>>>>
            /\ ReturnValue(fn_result) = Invoke(Pointer(cfunc), passed)
       ELSE /\ Invocations(fn_result) = <<>>
            /\ ReturnValue(fn_result) = kNull

\* a native function of 2 parameters was called with 3 arguments and
\* returned the second one
C38_Witness ==
  /\ fn = "charly_call_cfunction"
  /\ fn_args = <<CFunction("last", 2), 3, <<1, 2, 3>>>>
  /\ Invocations(fn_result) = <<<<"last", <<1, 2>>>>>>
  /\ ReturnValue(fn_result) = 2

(***************************************************************************)
(* The keyword context                                                     *)
(***************************************************************************)
\* the statement at the end of the first n scopes is inside a loop (for a
\* break: or inside a switch case) of the innermost function, defer or
\* finally body that encloses it
RECURSIVE InsideLoop(_, _, _)
InsideLoop(scopes, n, or_case) ==
  IF n = 0 THEN FALSE
  ELSE IF Name(scopes[n]) \in {"parse_while", "parse_loop", "parse_for"} THEN TRUE
  ELSE IF or_case /\ Name(scopes[n]) = "case" THEN TRUE
  ELSE IF Name(scopes[n]) \in {"parse_function", "parse_arrow_function", "parse_defer",
                               "finally"} THEN FALSE
  ELSE InsideLoop(scopes, n - 1, or_case)

====
